---- MODULE Spec2Model ----
(***************************************************************************)
(* A model of the ffp firmware: the USB control endpoint (EP0) with its    *)
(* staged multi-packet IN transfers and deferred stack requests, and the   *)
(* CMSIS-DAP command interpreter over the SWD engine.                      *)
(*                                                                         *)
(* A firmware panic (a failed bounds check, unwrap or assert!) halts the   *)
(* processor; it is modelled as a flag that, once set, disables every      *)
(* firmware action.                                                        *)
(***************************************************************************)
EXTENDS Integers, Sequences, FiniteSets, TLC

(***************************************************************************)
(* Bounds of the model.                                                    *)
(***************************************************************************)
\* SETUP packets the host sends in one run of the control-endpoint model.
MaxSetups == 2
\* Transfer elements in one DAP_Transfer request of the input set.
MaxElems == 2
\* Length of the explicit part of a target's answer script.
MaxScript == 2

(***************************************************************************)
(* Program constants.                                                      *)
(***************************************************************************)
\* Maximum packet size of every endpoint, and the size of EPBuf.tx in bytes.
PacketSize == 64
\* Size of ControlEndpoint.pending_tx_buf.
PendingBufLen == 256
\* Largest payload transmit_slice accepts (its assert!).
MaxPayload == 320
\* Size of DAP.rbuf, the response buffer.
RbufLen == 64

\* Option<T>: None, or Some(x) as a one-element sequence.  An
\* Option<(usize, usize)> is None or the pair itself.
None == <<>>
Some(x) == <<x>>

Min(a, b) == IF a < b THEN a ELSE b

(***************************************************************************)
(* Bit operations on bounded naturals, bit by bit as the hardware does.    *)
(***************************************************************************)
RECURSIVE BitAnd(_, _)
BitAnd(a, b) ==
    IF a = 0 \/ b = 0 THEN 0
    ELSE (a % 2) * (b % 2) + 2 * BitAnd(a \div 2, b \div 2)

RECURSIVE BitXor(_, _)
BitXor(a, b) ==
    IF a = 0 THEN b
    ELSE IF b = 0 THEN a
    ELSE ((a + b) % 2) + 2 * BitXor(a \div 2, b \div 2)

RECURSIVE PopCount(_)
PopCount(a) == IF a = 0 THEN 0 ELSE (a % 2) + PopCount(a \div 2)

\* The complement of a 2-bit field value (Rust's !stat under a 2-bit mask).
Not2(s) == 3 - s

(***************************************************************************)
(* USB endpoint STAT fields: write-1-to-toggle 2-bit fields of EPnR.       *)
(***************************************************************************)
DISABLED == 0
STALL == 1
NAK == 2
VALID == 3

\* Writing the wanted value itself rather than the bits to toggle.
stat_nak_plain(stat) == NAK
\* The bit pattern to write to a STAT field to update it to DISABLED, STALL,
\* NAK or VALID.
stat_disabled(stat) == BitAnd(stat, 2) + BitAnd(stat, 1)
stat_stall(stat) == BitAnd(stat, 2) + BitAnd(Not2(stat), 1)
stat_nak(stat) == BitAnd(Not2(stat), 2) + BitAnd(stat, 1)
stat_valid(stat) == BitAnd(Not2(stat), 2) + BitAnd(Not2(stat), 1)

\* What a write of `w` leaves in a toggle field that held `stat`.
ToggleWrite(stat, w) == BitXor(stat, w)

(***************************************************************************)
(* State.                                                                  *)
(***************************************************************************)
VARIABLES
    \* ---- ControlEndpoint (control_endpoint.rs) ----
    pending_request,    \* Option<USBStackRequest>, with the SETUP it came from
    pending_tx,         \* Option<(idx, len)>: None or <<idx, len>>
    pending_tx_buf,     \* [u8; 256], as a sequence of 256 bytes
    \* ---- EP0 hardware: EP0R, the buffer table row and the packet memory ----
    ep0r,               \* [ctr_tx, ctr_rx, setup, stat_tx, stat_rx]
    epbuf_tx,           \* EPBuf.tx as 64 bytes
    count_tx,           \* BTableRow.COUNT_TX
    epbuf_rx,           \* the SETUP packet held in EPBuf.rx, or None
    \* ---- observation of the control endpoint ----
    ctl,                \* [nsetup, sid, loaded, sent, ret, wire, cur, reply_due]
    panicked,           \* the firmware has panicked (processor halted)
    \* ---- DAP, SWD, pins and SPI (dap.rs, swd.rs, gpio.rs, spi.rs) ----
    configured,         \* DAP.configured
    swo_streaming,      \* DAP.swo_streaming
    match_retries,      \* DAP.match_retries
    wait_retries,       \* SWD.wait_retries
    pins,               \* per pin: [mode, otype, odr, pull]
    spi_enabled,        \* SPI CR1.SPE
    spi_clock,          \* SPI CR1.BR
    uart_active,        \* the SWO UART receiver is running
    dap_in,             \* Option<Request::DAP1Command>, with the target's answers
    out,                \* observation of the command processed last
    \* ---- App and the bulk interfaces (app.rs) ----
    mode,               \* App.mode
    spi_data_enabled,   \* the SPI bulk endpoint accepts OUT packets
    dap_enabled,        \* the DAP endpoints accept OUT packets
    spi_in,             \* Option<Request::SPITransmit>, with the level of TDO
    spi_out,            \* observation of the SPITransmit processed last
    app,                \* observation of the pin transitions
    \* ---- the host software (software/src/jtag.rs) ----
    host,               \* the SequenceBuilder, and whether it has been executed
    \* ---- SWO streaming (hal/usb/swo_endpoint.rs, hal/uart.rs) ----
    tx_busy,            \* SWOEndpoint.tx_busy
    swo_tx,             \* the packet loaded in EP4 for the host: None or Some(bytes)
    swo_ctr_tx,         \* EP4R.CTR_TX: the host has taken the packet
    ep4_stat_tx,        \* EP4R.STAT_TX
    uart_ring,          \* bytes in the UART ring buffer not yet read
    \* ---- reset and boot (hal/bootload.rs, main.rs) ----
    stage,              \* "pre_init", "app", "resetting" or "rom"
    latch,              \* RTC BKP0R, which keeps its value over a reset
    dppu,               \* BCDR.DPPU: the D+ pull-up attaches the device
    boot_log,           \* what the boot code and the bootload request did, in order
    \* ---- the option bytes (hal/flash.rs) ----
    opt_user,           \* the user option byte in flash
    opt_rdp,            \* the readout-protection option byte in flash
    obr,                \* FLASH.OBR, loaded from the option bytes at reset
    flash_log,          \* the flash operations of the last Flash::setup
    fix_count,          \* how often set_option_byte has run
    \* ---- the DAP v1 endpoint (hal/usb/dap1_endpoint.rs) ----
    ep2r,               \* EP2R: [ctr_tx, ctr_rx, stat_tx, stat_rx]
    ep2_rx,             \* the report held in the endpoint's EPBuf.rx, or None
    \* ---- the data phase of an SWD read (hal/spi.rs) ----
    rd,                 \* [pc, sck, left, per, ans, swapped]
    \* ---- the target's TAP controller and the host's TAP (software/src/jtag.rs) ----
    tap,                \* [state, op, from, data, nbits, ran, segs, shifted, result]
    \* ---- the STAT fields of an endpoint register (hal/usb/mod.rs) ----
    epr                 \* [stat, was, wrote, field]: STAT_TX and STAT_RX of an EPnR

ctlVars == <<pending_request, pending_tx, pending_tx_buf, ep0r, epbuf_tx,
             count_tx, epbuf_rx, ctl>>
dapVars == <<configured, swo_streaming, match_retries, wait_retries, pins,
             spi_enabled, spi_clock, uart_active, dap_in, out>>
appVars == <<mode, spi_data_enabled, dap_enabled, spi_in, spi_out, app>>
swoVars == <<tx_busy, swo_tx, swo_ctr_tx, ep4_stat_tx, uart_ring>>
bootVars == <<stage, latch, dppu, boot_log>>
flashVars == <<opt_user, opt_rdp, obr, flash_log, fix_count>>
ep2Vars == <<ep2r, ep2_rx>>
extVars == <<ep2Vars, rd, tap, epr>>
sysVars == <<host, swoVars, bootVars, flashVars, extVars>>
\* sysVars without one of its groups.
sysNotHost == <<swoVars, bootVars, flashVars, extVars>>
sysNotSwo == <<host, bootVars, flashVars, extVars>>
sysNotBoot == <<host, swoVars, flashVars, extVars>>
sysNotFlash == <<host, swoVars, bootVars, extVars>>
sysNotEp2 == <<host, swoVars, bootVars, flashVars, rd, tap, epr>>
sysNotRd == <<host, swoVars, bootVars, flashVars, ep2Vars, tap, epr>>
sysNotTap == <<host, swoVars, bootVars, flashVars, ep2Vars, rd, epr>>
sysNotEpr == <<host, swoVars, bootVars, flashVars, ep2Vars, rd, tap>>
vars == <<ctlVars, dapVars, panicked, appVars, sysVars>>

(***************************************************************************)
(* Payload bytes of the control endpoint.  The code only copies them, so a *)
(* byte is modelled by its identity <<sid, i>>: byte i of the payload that *)
(* answers SETUP number sid.                                               *)
(***************************************************************************)
ZeroByte == <<0, 0>>
Payload(sid, len) == [i \in 1..len |-> <<sid, i - 1>>]

\* Rust's slice[from..to] (0-based, end exclusive) of a sequence.
Slice(s, from, to) == SubSeq(s, from + 1, to)


(***************************************************************************)
(* The control endpoint as a value: the fields of ControlEndpoint, the EP0 *)
(* registers and packet memory it works on, the panic flag, the value its  *)
(* handler returns (ret) and the observation record (g).                   *)
(***************************************************************************)
CEState ==
    [pr |-> pending_request, ptx |-> pending_tx, pbuf |-> pending_tx_buf,
     r |-> ep0r, tx |-> epbuf_tx, cnt |-> count_tx, rx |-> epbuf_rx,
     pan |-> panicked, ret |-> None, g |-> ctl]

CESet(s) ==
    /\ pending_request' = s.pr
    /\ pending_tx' = s.ptx
    /\ pending_tx_buf' = s.pbuf
    /\ ep0r' = s.r
    /\ epbuf_tx' = s.tx
    /\ count_tx' = s.cnt
    /\ panicked' = s.pan
    /\ ctl' = s.g

Panic(s) == [s EXCEPT !.pan = TRUE]

\* EPBuf::write_tx: copy `data` into the tx buffer by half-words.  `&data[0]`
\* is evaluated before anything else, and `self.tx[data_u16.len()]` for the
\* last byte of an odd-sized slice.
write_tx(s, data) ==
    IF s.pan THEN s
    ELSE IF Len(data) = 0 THEN Panic(s)
    ELSE LET n16 == Len(data) \div 2
             odd == Len(data) % 2 = 1
         IN  IF n16 > PacketSize \div 2 THEN Panic(s)
             ELSE IF odd /\ n16 >= PacketSize \div 2 THEN Panic(s)
             ELSE [s EXCEPT !.tx =
                     [i \in 1..PacketSize |->
                        IF i <= 2 * n16 THEN data[i]
                        ELSE IF odd /\ i = 2 * n16 + 1 THEN data[Len(data)]
                        ELSE IF odd /\ i = 2 * n16 + 2 THEN ZeroByte
                        ELSE s.tx[i]]]

\* BTableRow::tx_count
tx_count(s, n) == IF s.pan THEN s ELSE [s EXCEPT !.cnt = n]

\* ControlEndpoint::tx_valid: STAT_TX toggled to VALID, CTR bits kept.
tx_valid(s) ==
    IF s.pan THEN s
    ELSE [s EXCEPT !.r.stat_tx = ToggleWrite(@, stat_valid(@))]

\* ControlEndpoint::stall
stall(s) ==
    IF s.pan THEN s
    ELSE [s EXCEPT !.r.stat_tx = ToggleWrite(@, stat_stall(@)),
                   !.r.stat_rx = ToggleWrite(@, stat_stall(@))]

\* ControlEndpoint::rx_valid
rx_valid(s) ==
    IF s.pan THEN s
    ELSE [s EXCEPT !.r.stat_rx = ToggleWrite(@, stat_valid(@))]

\* Observation: the packet now loaded for transmission is of kind `kind` and
\* was loaded on behalf of SETUP number s.g.sid.
Loaded(s, kind) ==
    IF s.pan THEN s ELSE [s EXCEPT !.g.loaded = [sid |-> s.g.sid, kind |-> kind]]

\* ControlEndpoint::transmit_ack
transmit_ack(s) == Loaded(tx_valid(tx_count(s, 0)), "ack")

\* ControlEndpoint::transmit_next
transmit_next(s) ==
    IF s.pan \/ s.ptx = None THEN s
    ELSE LET idx == s.ptx[1]
             len == s.ptx[2]
         IN  IF len < PacketSize
             THEN IF idx + len > PendingBufLen THEN Panic(s)
                  ELSE LET a == write_tx(s, Slice(s.pbuf, idx, idx + len))
                           b == tx_count(a, len)
                           c == IF b.pan THEN b ELSE [b EXCEPT !.ptx = None]
                       IN  Loaded(tx_valid(c), "data")
             ELSE IF idx + PacketSize > PendingBufLen THEN Panic(s)
                  ELSE LET a == write_tx(s, Slice(s.pbuf, idx, idx + PacketSize))
                           b == tx_count(a, PacketSize)
                           c == IF b.pan THEN b
                                ELSE [b EXCEPT !.ptx = <<idx + PacketSize,
                                                         len - PacketSize>>]
                       IN  Loaded(tx_valid(c), "data")

\* ControlEndpoint::transmit_slice
transmit_slice(s, data) ==
    IF s.pan THEN s
    ELSE IF Len(data) > MaxPayload THEN Panic(s)
    ELSE IF Len(data) < PacketSize
    THEN Loaded(tx_valid(tx_count(write_tx(s, data), Len(data))), "data")
    ELSE LET a == write_tx(s, Slice(data, 0, PacketSize))
             b == tx_count(a, PacketSize)
             leftover == Len(data) - PacketSize
             c == IF b.pan THEN b
                  ELSE IF leftover > PendingBufLen THEN Panic(b)
                  ELSE [b EXCEPT
                          !.pbuf = [i \in 1..PendingBufLen |->
                                      IF i <= leftover THEN data[PacketSize + i]
                                      ELSE b.pbuf[i]],
                          !.ptx = <<0, Len(data) - PacketSize>>,
                          !.g.staged = b.g.sid]
         IN  Loaded(tx_valid(c), "data")


(***************************************************************************)
(* SETUP packets: [bmRequestType, bRequest, wValue, wLength], and sid, the *)
(* ordinal of the packet among the SETUPs of the run (observation only).   *)
(***************************************************************************)
\* SetupPID::setup_type: bits 6..5 of bmRequestType.
setup_type(setup) == (setup.bmRequestType \div 32) % 4
SetupTypeStandard == 0
SetupTypeVendor == 2

\* size_of::<DeviceDescriptor>() and the length of the assembled
\* configuration descriptor, of the HID report and of the string descriptors.
DeviceDescriptorLen == 18
ConfigurationDescriptorLen == 64
HIDReportLen == 32
STRING_LANGS_Len == 1

\* string.len() of the strings behind string indices 1 to 5.
StringLen(idx) ==
    CASE idx = 1 -> 3
      [] idx = 2 -> 29
      [] idx = 3 -> 24
      [] idx = 4 -> 17
      [] OTHER -> 26

\* A USBStackRequest, remembered with the SETUP that asked for it.
StackRequest(s, kind, req, arg) ==
    [kind |-> kind, req |-> req, arg |-> arg, sid |-> s.g.sid]

\* ControlEndpoint::process_get_string_descriptor
process_get_string_descriptor(s, w_length, idx) ==
    IF idx = 0
    THEN transmit_slice(s, Payload(s.g.sid, Min(2 + 2 * STRING_LANGS_Len, w_length)))
    ELSE IF idx \in 1..5
    THEN transmit_slice(s, Payload(s.g.sid, Min(2 + 2 * StringLen(idx), w_length)))
    ELSE stall(s)

\* ControlEndpoint::process_get_hid_report_descriptor
process_get_hid_report_descriptor(s, w_length, idx) ==
    IF idx = 0
    THEN transmit_slice(s, Payload(s.g.sid, Min(HIDReportLen, w_length)))
    ELSE stall(s)

\* ControlEndpoint::process_get_descriptor, with process_get_device_descriptor
\* and process_get_configuration_descriptor.
process_get_descriptor(s, w_length, descriptor_type, descriptor_index) ==
    CASE descriptor_type = 1 ->
            transmit_slice(s, Payload(s.g.sid, Min(DeviceDescriptorLen, w_length)))
      [] descriptor_type = 2 ->
            transmit_slice(s, Payload(s.g.sid, Min(ConfigurationDescriptorLen, w_length)))
      [] descriptor_type = 3 ->
            process_get_string_descriptor(s, w_length, descriptor_index)
      [] descriptor_type = 34 ->
            process_get_hid_report_descriptor(s, w_length, descriptor_index)
      [] OTHER -> stall(s)

\* The arm shared by the vendor set-requests: a valid wValue records the
\* request and queues the ACK, any other wValue stalls.
VendorSet(s, req, valid) ==
    IF valid
    THEN transmit_ack([s EXCEPT !.pr = Some(StackRequest(s, "AppRequest", req,
                                                           s.rx.wValue))])
    ELSE stall(s)

\* ControlEndpoint::process_vendor_request
process_vendor_request(s, setup) ==
    CASE setup.bRequest = 1 -> VendorSet(s, "SetCS", setup.wValue \in 0..1)
      [] setup.bRequest = 2 -> VendorSet(s, "SetFPGA", setup.wValue \in 0..1)
      [] setup.bRequest = 3 -> VendorSet(s, "SetMode", setup.wValue \in 0..3)
      [] setup.bRequest = 4 -> VendorSet(s, "SetTPwr", setup.wValue \in 0..1)
      [] setup.bRequest = 5 ->
            [s EXCEPT !.ret = Some(StackRequest(s, "AppRequest", "GetTPwr", 0))]
      [] setup.bRequest = 6 -> VendorSet(s, "SetLED", setup.wValue \in 0..1)
      [] setup.bRequest = 7 ->
            transmit_ack([s EXCEPT !.pr = Some(StackRequest(s, "AppRequestAndDetach",
                                                              "Bootload", 0))])
      [] OTHER -> stall(s)

\* ControlEndpoint::process_setup
process_setup(s, setup) ==
    IF setup_type(setup) = SetupTypeStandard
    THEN CASE setup.bRequest = 6 ->
                process_get_descriptor(s, setup.wLength, setup.wValue \div 256,
                                       setup.wValue % 256)
           [] setup.bRequest = 0 -> transmit_slice(s, Payload(s.g.sid, 2))
           [] setup.bRequest = 5 ->
                transmit_ack([s EXCEPT !.pr = Some(StackRequest(s, "SetAddress", "-",
                                                                  setup.wValue))])
           [] setup.bRequest = 9 ->
                transmit_ack([s EXCEPT !.pr =
                    CASE setup.wValue = 0 -> Some(StackRequest(s, "Reset", "-", 0))
                      [] setup.wValue = 1 -> Some(StackRequest(s, "SetConfiguration", "-", 0))
                      [] OTHER -> None])
           [] OTHER -> stall(s)
    ELSE IF setup_type(setup) = SetupTypeVendor
    THEN process_vendor_request(s, setup)
    ELSE stall(s)

\* ControlEndpoint::process_tx_complete
process_tx_complete(s) ==
    LET a == IF s.ptx # None THEN transmit_next(s) ELSE s
    IN  IF a.pan THEN a ELSE [a EXCEPT !.ret = a.pr, !.pr = None]

\* ControlEndpoint::process_rx_complete
process_rx_complete(s) ==
    LET a == IF s.r.setup = 1 THEN process_setup(s, s.rx) ELSE s
    IN  rx_valid(a)

\* ControlEndpoint::process_transfer: one completed direction per call, the
\* transmission first; its CTR bit is cleared after the handler returns.
process_transfer(s) ==
    IF s.r.ctr_tx = 1
    THEN LET a == process_tx_complete(s)
         IN  IF a.pan THEN a ELSE [a EXCEPT !.r.ctr_tx = 0]
    ELSE IF s.r.ctr_rx = 1
    THEN LET a == process_rx_complete(s)
         IN  IF a.pan THEN a ELSE [a EXCEPT !.r.ctr_rx = 0]
    ELSE s


(***************************************************************************)
(* The host's SETUP packets of the model.                                  *)
(***************************************************************************)
Setup(bm, req, val, len) ==
    [bmRequestType |-> bm, bRequest |-> req, wValue |-> val, wLength |-> len]

GetTPwrSetup == Setup(192, 5, 0, 2)

SetupPackets ==
    {   Setup(0, 5, 5, 0),          \* SET_ADDRESS 5
        Setup(0, 9, 1, 0),          \* SET_CONFIGURATION 1
        Setup(0, 9, 0, 0),          \* SET_CONFIGURATION 0 (Reset)
        Setup(0, 9, 2, 0),          \* SET_CONFIGURATION 2 (no request)
        Setup(128, 0, 0, 2),        \* GET_STATUS
        Setup(128, 6, 256, 18),     \* GET_DESCRIPTOR Device
        Setup(128, 6, 512, 9),      \* GET_DESCRIPTOR Configuration, header only
        Setup(128, 6, 512, 64),     \* GET_DESCRIPTOR Configuration, all of it
        Setup(128, 6, 768, 255),    \* GET_DESCRIPTOR String 0
        Setup(128, 6, 775, 255),    \* GET_DESCRIPTOR String 7: no such string
        Setup(128, 6, 8704, 32),    \* GET_DESCRIPTOR HID report
        Setup(128, 6, 1536, 10),    \* GET_DESCRIPTOR of an unknown type
        Setup(0, 1, 0, 0),          \* CLEAR_FEATURE: not handled
        Setup(33, 10, 0, 0),        \* a class request
        Setup(64, 1, 1, 0),         \* vendor SetCS high
        Setup(64, 2, 0, 0),         \* vendor SetFPGA low
        Setup(64, 3, 3, 0),         \* vendor SetMode JTAG
        Setup(64, 3, 4, 0),         \* vendor SetMode of an unknown mode
        Setup(64, 4, 1, 0),         \* vendor SetTPwr high
        Setup(64, 6, 0, 0),         \* vendor SetLED low
        Setup(64, 7, 0, 0),         \* vendor Bootload
        Setup(192, 65, 0, 40),      \* vendor GetOSFeature
        GetTPwrSetup }

\* reply_tpwr transmits the two bytes [tpwr, 0].
TPwrReplyLen == 2

(***************************************************************************)
(* Initial state of the control endpoint: ControlEndpoint::new, EPBuf::new *)
(* and reset_endpoint.                                                     *)
(***************************************************************************)
NoPacket == [sid |-> 0, kind |-> "none"]

CtlInit ==
    /\ pending_request = None
    /\ pending_tx = None
    /\ pending_tx_buf = [i \in 1..PendingBufLen |-> ZeroByte]
    /\ ep0r = [ctr_tx |-> 0, ctr_rx |-> 0, setup |-> 0,
               stat_tx |-> NAK, stat_rx |-> VALID]
    /\ epbuf_tx = [i \in 1..PacketSize |-> ZeroByte]
    /\ count_tx = 0
    /\ epbuf_rx = [bmRequestType |-> 0, bRequest |-> 0, wValue |-> 0,
                   wLength |-> 0, sid |-> 0]
    /\ ctl = [nsetup |-> 0, sid |-> 0, loaded |-> NoPacket, sent |-> NoPacket,
              ret |-> [req |-> None, ev |-> "none", pkt |-> NoPacket],
              wire |-> <<>>, cur |-> [sid |-> 0, len |-> 0], staged |-> 0,
              reply_due |-> FALSE]

(***************************************************************************)
(* EP0 hardware events.  A SETUP is always accepted, and its reception     *)
(* sets both STAT fields to NAK (the doc comment of stall()); an IN token  *)
(* is answered with the loaded packet only while STAT_TX is VALID, an OUT  *)
(* packet is accepted only while STAT_RX is VALID; each completion sets    *)
(* its CTR bit and returns the STAT field to NAK.                          *)
(***************************************************************************)
HostSetupOf(pkts, max) ==
    /\ ~panicked
    /\ ctl.nsetup < max
    /\ ep0r.ctr_rx = 0
    /\ \E pkt \in pkts :
         epbuf_rx' = [bmRequestType |-> pkt.bmRequestType, bRequest |-> pkt.bRequest,
                      wValue |-> pkt.wValue, wLength |-> pkt.wLength,
                      sid |-> ctl.nsetup + 1]
    /\ ep0r' = [ep0r EXCEPT !.ctr_rx = 1, !.setup = 1,
                            !.stat_rx = NAK, !.stat_tx = NAK]
    /\ ctl' = [ctl EXCEPT !.nsetup = @ + 1]
    /\ UNCHANGED <<pending_request, pending_tx, pending_tx_buf, epbuf_tx,
                   count_tx, panicked, dapVars, appVars, sysVars>>

HostSetup == HostSetupOf(SetupPackets, MaxSetups)

HostIn ==
    /\ ~panicked
    /\ ep0r.stat_tx = VALID
    /\ ep0r.ctr_tx = 0
    /\ ep0r' = [ep0r EXCEPT !.ctr_tx = 1, !.stat_tx = NAK]
    /\ ctl' = [ctl EXCEPT !.wire = Append(@, SubSeq(epbuf_tx, 1, count_tx)),
                          !.sent = ctl.loaded]
    /\ UNCHANGED <<pending_request, pending_tx, pending_tx_buf, epbuf_tx,
                   count_tx, epbuf_rx, panicked, dapVars, appVars, sysVars>>

HostOut ==
    /\ ~panicked
    /\ ep0r.stat_rx = VALID
    /\ ep0r.ctr_rx = 0
    /\ ctl.nsetup > 0
    /\ ep0r' = [ep0r EXCEPT !.ctr_rx = 1, !.setup = 0, !.stat_rx = NAK]
    /\ UNCHANGED <<pending_request, pending_tx, pending_tx_buf, epbuf_tx,
                   count_tx, epbuf_rx, ctl, panicked, dapVars, appVars, sysVars>>

(***************************************************************************)
(* The USB interrupt: ControlEndpoint::process_transfer.  ctl.ret records  *)
(* what the call returned, on which event, and which packet's completion   *)
(* the event was.                                                          *)
(***************************************************************************)
Interrupt ==
    /\ ~panicked
    /\ ~ctl.reply_due
    /\ ep0r.ctr_tx = 1 \/ ep0r.ctr_rx = 1
    /\ LET tx == ep0r.ctr_tx = 1
           isSetup == ~tx /\ ep0r.setup = 1
           s0 == IF isSetup
                 THEN [CEState EXCEPT !.g.sid = epbuf_rx.sid, !.g.wire = <<>>,
                                      !.g.cur = [sid |-> 0, len |-> 0]]
                 ELSE CEState
           s1 == process_transfer(s0)
           s2 == [s1 EXCEPT !.g.ret = [req |-> s1.ret,
                                       ev |-> IF tx THEN "tx" ELSE "rx",
                                       pkt |-> IF tx THEN ctl.sent ELSE NoPacket],
                            !.g.reply_due = s1.ret # None /\ s1.ret[1].req = "GetTPwr"]
       IN  CESet(s2)
    /\ UNCHANGED <<epbuf_rx, dapVars, appVars, sysVars>>

(***************************************************************************)
(* The application answers GetTPwr, which process_transfer handed to it at *)
(* SETUP time, before the next interrupt is served: reply_tpwr passes its  *)
(* payload to ControlEndpoint::transmit_slice.                             *)
(***************************************************************************)
ReplyOf(lens) ==
    /\ ~panicked
    /\ ctl.reply_due
    /\ \E len \in lens :
         LET s0 == [CEState EXCEPT !.g.wire = <<>>, !.g.reply_due = FALSE,
                                   !.g.cur = [sid |-> ctl.sid, len |-> len]]
         IN  CESet(transmit_slice(s0, Payload(ctl.sid, len)))
    /\ UNCHANGED <<epbuf_rx, dapVars, appVars, sysVars>>

reply_tpwr == ReplyOf({TPwrReplyLen})


(***************************************************************************)
(* 32-bit words.  A u32 is kept as its two 16-bit halves <<lo, hi>>; bytes *)
(* and u16 values are naturals.                                            *)
(***************************************************************************)
\* u32::from_le_bytes and u32::to_le_bytes
u32_from_le_bytes(b) == <<b[1] + 256 * b[2], b[3] + 256 * b[4]>>
u32_to_le_bytes(w) == <<w[1] % 256, w[1] \div 256, w[2] % 256, w[2] \div 256>>
\* u16::from_le_bytes and u16::to_le_bytes
u16_from_le_bytes(b) == b[1] + 256 * b[2]
u16_to_le_bytes(v) == <<v % 256, (v \div 256) % 256>>

\* a & b and a.count_ones() on u32
And32(a, b) == <<BitAnd(a[1], b[1]), BitAnd(a[2], b[2])>>
count_ones(w) == PopCount(w[1]) + PopCount(w[2])
\* a | b on bytes
BitOr(a, b) == a + b - BitAnd(a, b)

(***************************************************************************)
(* The pins (gpio.rs).  Each pin has its MODER mode, OTYPER output type,   *)
(* output latch and pull.                                                  *)
(***************************************************************************)
Pin(dir, otype, odr, pull) ==
    [mode |-> dir, otype |-> otype, odr |-> odr, pull |-> pull]

\* Pins::setup
PinsSetup ==
    [led      |-> Pin("output", "pushpull", 0, "floating"),
     cs       |-> Pin("input", "opendrain", 1, "up"),
     fpga_rst |-> Pin("input", "opendrain", 1, "floating"),
     sck      |-> Pin("input", "pushpull", 0, "floating"),
     flash_so |-> Pin("input", "pushpull", 1, "floating"),
     flash_si |-> Pin("input", "pushpull", 0, "floating"),
     fpga_so  |-> Pin("input", "pushpull", 0, "floating"),
     fpga_si  |-> Pin("input", "pushpull", 0, "floating"),
     tpwr_det |-> Pin("input", "pushpull", 0, "floating"),
     tpwr_en  |-> Pin("output", "pushpull", 0, "floating")]

\* Pins::swd_mode
swd_mode(p) ==
    [p EXCEPT !.cs.mode = "alternate",
              !.sck.mode = "alternate", !.sck.pull = "up",
              !.flash_so.otype = "opendrain", !.flash_so.mode = "output",
              !.flash_si.mode = "alternate",
              !.fpga_so.mode = "alternate",
              !.fpga_si.mode = "input",
              !.fpga_rst.mode = "input"]

\* Pins::high_impedance_mode
high_impedance_mode(p) ==
    [p EXCEPT !.cs.mode = "input",
              !.sck.mode = "input",
              !.flash_so.mode = "input",
              !.flash_si.mode = "input",
              !.fpga_so.mode = "input", !.fpga_so.odr = 1,
              !.fpga_si.mode = "input",
              !.fpga_rst.otype = "opendrain", !.fpga_rst.mode = "output"]

\* Pins::swd_rx and Pins::swd_tx: the memoised MODER values of flash_si.
swd_rx(p) == [p EXCEPT !.flash_si.mode = "input"]
swd_tx(p) == [p EXCEPT !.flash_si.mode = "alternate"]

\* Pin::get_state: the level read from IDR.  A pin the device drives reads
\* as its output latch (an open-drain output only when the latch is low);
\* any other pin reads as the level `ext` the outside world puts on it.
get_state(pin, ext) ==
    IF pin.mode = "output" /\ (pin.otype = "pushpull" \/ pin.odr = 0)
    THEN pin.odr
    ELSE ext


(***************************************************************************)
(* One call of DAP::process_command as a value: the unread request bytes   *)
(* (data), the bytes of rbuf written so far (buf, whose length is the      *)
(* ResponseWriter's idx), the panic flag, the fields of DAP, SWD, the pins *)
(* and the SPI the call works on, the answers the target is still to give  *)
(* (script), what the call put on the wire, and the calls that turned the  *)
(* SWDIO line around (bus).  For DAP_Transfer, exec is                      *)
(* the number of iterations of its loop that were entered and reads the    *)
(* number of read transfers that ended OK and saved their value.           *)
(*                                                                         *)
(* rbuf is kept as its written prefix: finished() returns buf[..idx], and  *)
(* every index the handlers read or write lies below idx, so bytes left in *)
(* rbuf by earlier commands are never read.                                *)
(***************************************************************************)
NoResult == [ok |-> FALSE, err |-> "none", value |-> <<0, 0>>]

DState(in) ==
    [data |-> <<>>, buf |-> <<>>, pan |-> FALSE, some |-> FALSE,
     v |-> 0, w |-> <<0, 0>>, res |-> NoResult, brk |-> FALSE,
     exec |-> 0, reads |-> 0,
     script |-> in.script, ext |-> in.ext, wire |-> <<>>, bus |-> <<>>,
     configured |-> configured, swo_streaming |-> swo_streaming,
     match_retries |-> match_retries, wait_retries |-> wait_retries,
     pins |-> pins, spi_enabled |-> spi_enabled, spi_clock |-> spi_clock,
     uart_active |-> uart_active]

DPanic(d) == [d EXCEPT !.pan = TRUE]

\* Request::next_u8, next_u16 and next_u32: the value is left in d.v (d.w for
\* a u32); indexing past the end of the data panics.
next_u8(d) ==
    IF d.pan THEN d
    ELSE IF Len(d.data) < 1 THEN DPanic(d)
    ELSE [d EXCEPT !.v = d.data[1], !.data = SubSeq(d.data, 2, Len(d.data))]

next_u16(d) ==
    IF d.pan THEN d
    ELSE IF Len(d.data) < 2 THEN DPanic(d)
    ELSE [d EXCEPT !.v = u16_from_le_bytes(SubSeq(d.data, 1, 2)),
                   !.data = SubSeq(d.data, 3, Len(d.data))]

next_u32(d) ==
    IF d.pan THEN d
    ELSE IF Len(d.data) < 4 THEN DPanic(d)
    ELSE [d EXCEPT !.w = u32_from_le_bytes(SubSeq(d.data, 1, 4)),
                   !.data = SubSeq(d.data, 5, Len(d.data))]

\* ResponseWriter::new
ResponseWriter_new(d, command) ==
    IF d.pan THEN d ELSE [d EXCEPT !.buf = <<command>>]

\* ResponseWriter::write_slice: a copy that would end beyond rbuf panics.
write_slice(d, bytes) ==
    IF d.pan THEN d
    ELSE IF Len(d.buf) + Len(bytes) > RbufLen THEN DPanic(d)
    ELSE [d EXCEPT !.buf = d.buf \o bytes]

\* ResponseWriter::write_u8, write_u16, write_u32, write_ok and write_err
write_u8(d, value) == write_slice(d, <<value>>)
write_u16(d, value) == write_slice(d, u16_to_le_bytes(value))
write_u32(d, value) == write_slice(d, u32_to_le_bytes(value))
DAP_OK == 0
DAP_ERROR == 255
write_ok(d) == write_u8(d, DAP_OK)
write_err(d) == write_u8(d, DAP_ERROR)

\* ResponseWriter::write_u8_at, mut_at, write_u16_at and read_u8_at (idx is
\* 0-based).  The handlers only use them on bytes they have reserved.
write_u8_at(d, idx, value) ==
    IF d.pan THEN d
    ELSE IF idx >= RbufLen THEN DPanic(d)
    ELSE IF idx >= Len(d.buf) THEN d
    ELSE [d EXCEPT !.buf[idx + 1] = value]

write_u16_at(d, idx, value) ==
    IF d.pan THEN d
    ELSE IF idx + 2 > RbufLen THEN DPanic(d)
    ELSE IF idx + 2 > Len(d.buf) THEN d
    ELSE [d EXCEPT !.buf[idx + 1] = u16_to_le_bytes(value)[1],
                   !.buf[idx + 2] = u16_to_le_bytes(value)[2]]

read_u8_at(d, idx) == d.buf[idx + 1]

(***************************************************************************)
(* The SWD engine (swd.rs).  The target's answer to a transaction is the   *)
(* head of the script: the three ACK bits and, for a read it acknowledges, *)
(* the data word and the parity bit.  The last answer of a script repeats. *)
(***************************************************************************)
ACK_OK == 1
ACK_WAIT == 2
ACK_FAULT == 4
ACK_PROTOCOL == 7

\* ACK::check_ok
check_ok(ack) ==
    CASE ack = ACK_OK -> "Ok"
      [] ack = ACK_WAIT -> "AckWait"
      [] ack = ACK_FAULT -> "AckFault"
      [] ack = ACK_PROTOCOL -> "AckProtocol"
      [] OTHER -> "AckUnknown"

\* make_request as it would be without its parity bit.
make_request_without_parity(apndp, rnw, a) ==
    BitOr(BitOr(BitOr(BitOr(1, 2 * apndp), 4 * rnw), (8 * a) % 256), 128)

\* SWD::make_request: start bit, APnDP, RnW, A[2:3], parity, stop and park.
make_request(apndp, rnw, a) ==
    LET req == BitOr(BitOr(BitOr(BitOr(1, 2 * apndp), 4 * rnw), (8 * a) % 256), 128)
        parity == PopCount(req) % 2
    IN  BitOr(req, 32 * parity)

Ok(value) == [ok |-> TRUE, err |-> "none", value |-> value]
Err(e) == [ok |-> FALSE, err |-> e, value |-> <<0, 0>>]

\* One transaction on the wire: the request byte, the ACK, whether it is the
\* first attempt of a call of read or write, and the data phase if any.  The
\* request byte is sent with spi.tx8 before the line is turned around.
Wire(d, req, ack, first, phase, data, parity) ==
    [d EXCEPT !.wire = Append(@, [req |-> req, ack |-> ack, first |-> first,
                                  phase |-> phase, data |-> data,
                                  parity |-> parity]),
              !.bus = Append(@, "req"),
              !.script = IF Len(@) > 1 THEN Tail(@) ELSE @]

\* self.pins.swd_rx() and self.pins.swd_tx() in SWD::read, SWD::write and
\* SPI::swd_rdata_phase: the target drives SWDIO, the host drives SWDIO.
bus_rx(d) == [d EXCEPT !.pins = swd_rx(@), !.bus = Append(@, "rx")]
bus_tx_skipped(d) == d
bus_tx(d) == [d EXCEPT !.pins = swd_tx(@), !.bus = Append(@, "tx")]
\* SPI::swd_rdata_phase once its waits are over: it takes the bus back after
\* the parity bit; the data and the parity bit are the target's answer.
swd_rdata_phase(d) == bus_tx(d)

\* The parity check of SWD::read as it would be if the parity bit were not
\* looked at.
ReadResult_unchecked(data, parity) == Ok(data)

\* The end of SWD::read: the data is returned if the parity bit received is
\* the parity of the data.
ReadResult(data, parity) ==
    IF parity = count_ones(data) % 2 THEN Ok(data) ELSE Err("BadParity")

\* SWD::read, with the retries still allowed after a WAIT.
RECURSIVE swd_read_n(_, _, _, _, _)
swd_read_n(d, apndp, a, retries, first) ==
    IF d.pan THEN d
    ELSE LET t == d.script[1]
             req == make_request(apndp, 1, a)
             e == check_ok(t.ack)
         IN  IF e = "Ok"
             THEN LET d1 == Wire(d, req, t.ack, first, "read", t.data, t.parity)
                  IN  [bus_tx(swd_rdata_phase(bus_rx(d1)))
                          EXCEPT !.res = ReadResult(t.data, t.parity)]
             ELSE LET d1 == Wire(d, req, t.ack, first, "none", <<0, 0>>, 0)
                      d2 == bus_tx(bus_rx(d1))
                  IN  IF e = "AckWait" /\ retries > 0
                      THEN swd_read_n(d2, apndp, a, retries - 1, FALSE)
                      ELSE [d2 EXCEPT !.res = Err(e)]

\* SWD::write, with the retries still allowed after a WAIT.
RECURSIVE swd_write_n(_, _, _, _, _, _)
swd_write_n(d, apndp, a, data, retries, first) ==
    IF d.pan THEN d
    ELSE LET t == d.script[1]
             req == make_request(apndp, 0, a)
             parity == count_ones(data) % 2
             e == check_ok(t.ack)
         IN  IF e = "Ok"
             THEN LET d1 == Wire(d, req, t.ack, first, "write", data, parity)
                  IN  [bus_tx(bus_rx(d1)) EXCEPT !.res = Ok(<<0, 0>>)]
             ELSE LET d1 == Wire(d, req, t.ack, first, "none", <<0, 0>>, 0)
                      d2 == bus_tx(bus_rx(d1))
                  IN  IF e = "AckWait" /\ retries > 0
                      THEN swd_write_n(d2, apndp, a, data, retries - 1, FALSE)
                      ELSE [d2 EXCEPT !.res = Err(e)]

\* swd_read as it would be if one more retry were allowed.
swd_read_one_retry_more(d, apndp, a) ==
    swd_read_n(d, apndp, a, d.wait_retries + 1, TRUE)

\* SWD::read and SWD::write as DAP calls them, SWD::read_dp, read_ap and
\* write_dp: the retries allowed are SWD.wait_retries.
swd_read(d, apndp, a) == swd_read_n(d, apndp, a, d.wait_retries, TRUE)
swd_write(d, apndp, a, data) == swd_write_n(d, apndp, a, data, d.wait_retries, TRUE)
read_dp(d, a) == swd_read(d, 0, a)
read_ap(d, a) == swd_read(d, 1, a)
write_dp(d, a, data) == swd_write(d, 0, a, data)
RDBUFF == 3

\* SWD::set_wait_retries, spi_enable, spi_disable, set_clock and tx_sequence
set_wait_retries(d, n) == IF d.pan THEN d ELSE [d EXCEPT !.wait_retries = n]
spi_enable(d) == IF d.pan THEN d ELSE [d EXCEPT !.spi_enabled = TRUE]
spi_disable(d) == IF d.pan THEN d ELSE [d EXCEPT !.spi_enabled = FALSE]
set_clock(d, clk) == IF d.pan THEN d ELSE [d EXCEPT !.spi_clock = clk]
tx_sequence(d, seq) ==
    IF d.pan THEN d
    ELSE [d EXCEPT !.wire = Append(@, [req |-> 0, ack |-> 0, first |-> TRUE,
                                       phase |-> "sequence", data |-> seq,
                                       parity |-> 0])]

\* check as it would be if an error did not make the caller leave its loop.
check_without_break(d, at) ==
    IF d.pan THEN d
    ELSE LET code == CASE d.res.ok -> 1
                       [] d.res.err = "AckWait" -> 2
                       [] d.res.err = "AckFault" -> 4
                       [] OTHER -> BitOr(8, 7)
         IN  [write_u8_at(d, at, code) EXCEPT !.brk = FALSE]

\* CheckResult::check: the status byte at index `at` of the response takes
\* the code of the result; d.brk tells the caller to leave its loop.
check(d, at) ==
    IF d.pan THEN d
    ELSE LET code == CASE d.res.ok -> 1
                       [] d.res.err = "AckWait" -> 2
                       [] d.res.err = "AckFault" -> 4
                       [] OTHER -> BitOr(8, 7)
         IN  [write_u8_at(d, at, code) EXCEPT !.brk = ~d.res.ok]


(***************************************************************************)
(* The command handlers of DAP (dap.rs).  A handler that returns None      *)
(* clears d.some.                                                          *)
(***************************************************************************)
ReturnNone(d) == IF d.pan THEN d ELSE [d EXCEPT !.some = FALSE]

\* crate::GIT_VERSION, UART::buffer_len, UART::set_baud, UART::is_active,
\* UART::bytes_available and UART::read: the build's version string and the
\* SWO receiver with an empty ring buffer.
GIT_VERSION == <<118, 49, 46, 48>>
uart_buffer_len == <<256, 0>>
uart_set_baud(target) == target
uart_bytes_available == <<0, 0>>

\* DAP::process_info
process_info(d0) ==
    LET d == next_u8(ResponseWriter_new(d0, 0))
        id == d.v
    IN  CASE d.pan -> d
          [] id \in {1, 2, 3, 5, 6} -> write_u8(d, 0)
          [] id = 4 -> write_slice(write_u8(d, Len(GIT_VERSION)), GIT_VERSION)
          [] id = 240 -> write_u8(write_u8(d, 1), 69)
          [] id = 253 -> write_u32(write_u8(d, 4), uart_buffer_len)
          [] id = 254 -> write_u8(write_u8(d, 1), 1)
          [] id = 255 -> write_u16(write_u8(d, 2), 64)
          [] OTHER -> ReturnNone(d)

\* DAP::process_host_status
process_host_status(d0) ==
    LET d1 == next_u8(ResponseWriter_new(d0, 1))
        d2 == next_u8(d1)
        status_type == d1.v
        status_status == d2.v
        d3 == IF ~d2.pan /\ status_type = 0 /\ status_status \in {0, 1}
              THEN [d2 EXCEPT !.pins.led.odr = status_status]
              ELSE d2
    IN  write_u8(d3, 0)

\* DAP::process_connect
process_connect(d0) ==
    LET d == next_u8(ResponseWriter_new(d0, 2))
        port == d.v
    IN  IF d.pan THEN d
        ELSE IF port \in {0, 1}
        THEN write_u8([spi_enable([d EXCEPT !.pins = swd_mode(@)])
                         EXCEPT !.configured = TRUE], 1)
        ELSE write_u8(d, 0)

\* DAP::process_disconnect
process_disconnect(d0) ==
    LET d == ResponseWriter_new(d0, 3)
    IN  write_ok(spi_disable([d EXCEPT !.pins = high_impedance_mode(@),
                                       !.configured = FALSE]))

\* process_write_abort as it would be without its test of `configured`.
process_write_abort_unguarded(d0) ==
    LET d1 == next_u32(next_u8(ResponseWriter_new(d0, 8)))
        d2 == write_dp(d1, 0, d1.w)
    IN  IF d2.pan THEN d2
        ELSE IF d2.res.ok THEN write_ok(d2) ELSE write_err(d2)

\* DAP::process_write_abort
process_write_abort(d0) ==
    LET d == ResponseWriter_new(d0, 8)
    IN  IF ~d.configured THEN write_err(d)
        ELSE LET d1 == next_u32(next_u8(d))
                 d2 == write_dp(d1, 0, d1.w)
             IN  IF d2.pan THEN d2
                 ELSE IF d2.res.ok THEN write_ok(d2) ELSE write_err(d2)

\* DAP::process_delay (the delay itself takes time and changes nothing)
process_delay(d0) == write_ok(next_u16(ResponseWriter_new(d0, 9)))

\* DAP::process_reset_target
process_reset_target(d0) == write_u8(write_ok(ResponseWriter_new(d0, 10)), 0)

\* DAP::process_swj_pins
process_swj_pins(d0) ==
    LET d1 == next_u8(ResponseWriter_new(d0, 16))
        d2 == next_u8(d1)
        d3 == next_u32(d2)
        output == d1.v
        mask == d2.v
        d4 == IF d3.pan \/ BitAnd(mask, 128) = 0 THEN d3
              ELSE IF BitAnd(output, 128) = 0
              THEN [d3 EXCEPT !.pins.flash_so.otype = "opendrain",
                              !.pins.flash_so.odr = 0,
                              !.pins.flash_so.mode = "output"]
              ELSE [d3 EXCEPT !.pins.flash_so.mode = "input"]
        state == get_state(d4.pins.sck, d4.ext)
                 + 2 * get_state(d4.pins.flash_si, d4.ext)
                 + 4 * get_state(d4.pins.fpga_rst, d4.ext)
                 + 8 * get_state(d4.pins.cs, d4.ext)
                 + 32
                 + 128 * get_state(d4.pins.flash_so, d4.ext)
    IN  write_u8(d4, state)

\* SPIClock::from_max: the code of the fastest clock not above `hz`, or 8 for
\* None.  The clocks are 24 MHz / 2^code.
Ge32(w, n) == w[2] > n \div 65536 \/ (w[2] = n \div 65536 /\ w[1] >= n % 65536)
from_max(hz) ==
    CASE Ge32(hz, 24000000) -> 0
      [] Ge32(hz, 12000000) -> 1
      [] Ge32(hz, 6000000) -> 2
      [] Ge32(hz, 3000000) -> 3
      [] Ge32(hz, 1500000) -> 4
      [] Ge32(hz, 750000) -> 5
      [] Ge32(hz, 375000) -> 6
      [] Ge32(hz, 187500) -> 7
      [] OTHER -> 8

\* DAP::process_swj_clock
process_swj_clock(d0) ==
    LET d == next_u32(ResponseWriter_new(d0, 17))
        clk == from_max(d.w)
    IN  IF d.pan THEN d
        ELSE IF clk < 8 THEN write_ok(set_clock(d, clk))
        ELSE write_err(d)

\* DAP::process_swj_sequence without the remapping of 51 bits to 56.
process_swj_sequence_without_remap(d0) ==
    LET d == next_u8(ResponseWriter_new(d0, 18))
        nbits == CASE d.v = 0 -> 256 [] OTHER -> d.v
        nbytes == nbits \div 8
    IN  IF d.pan THEN d
        ELSE IF nbits % 8 # 0 THEN write_err(d)
        ELSE IF Len(d.data) < nbytes THEN DPanic(d)
        ELSE write_ok(tx_sequence(d, SubSeq(d.data, 1, nbytes)))

\* DAP::process_swj_sequence
process_swj_sequence(d0) ==
    LET d == next_u8(ResponseWriter_new(d0, 18))
        nbits == CASE d.v = 0 -> 256 [] d.v = 51 -> 56 [] OTHER -> d.v
        nbytes == nbits \div 8
    IN  IF d.pan THEN d
        ELSE IF nbits % 8 # 0 THEN write_err(d)
        ELSE IF Len(d.data) < nbytes THEN DPanic(d)
        ELSE write_ok(tx_sequence(d, SubSeq(d.data, 1, nbytes)))

\* DAP::process_swd_configure
process_swd_configure(d0) ==
    LET d == next_u8(ResponseWriter_new(d0, 19))
        clk_period == BitAnd(d.v, 3)
        always_data == BitAnd(d.v, 4) # 0
    IN  IF d.pan THEN d
        ELSE IF clk_period = 0 /\ ~always_data THEN write_ok(d) ELSE write_err(d)

\* DAP::process_swo_transport
process_swo_transport(d0) ==
    LET d == next_u8(ResponseWriter_new(d0, 23))
    IN  IF d.pan THEN d
        ELSE IF d.v \in {0, 1, 2}
        THEN write_ok([d EXCEPT !.swo_streaming = (d.v = 2)])
        ELSE write_err(d)

\* DAP::process_swo_mode
process_swo_mode(d0) ==
    LET d == next_u8(ResponseWriter_new(d0, 24))
    IN  IF d.pan THEN d
        ELSE IF d.v \in {0, 1} THEN write_ok(d) ELSE write_err(d)

\* DAP::process_swo_baudrate
process_swo_baudrate(d0) ==
    LET d == next_u32(ResponseWriter_new(d0, 25))
    IN  write_u32(d, uart_set_baud(d.w))

\* DAP::process_swo_control
process_swo_control(d0) ==
    LET d == next_u8(ResponseWriter_new(d0, 26))
    IN  IF d.pan THEN d
        ELSE IF d.v \in {0, 1}
        THEN write_ok([d EXCEPT !.uart_active = (d.v = 1)])
        ELSE write_err(d)

\* DAP::process_swo_status
process_swo_status(d0) ==
    LET d == ResponseWriter_new(d0, 27)
    IN  write_u32(write_u8(d, IF d.uart_active THEN 1 ELSE 0), uart_bytes_available)

\* DAP::process_swo_extended_status
process_swo_extended_status(d0) ==
    LET d == ResponseWriter_new(d0, 30)
        d1 == write_u32(write_u8(d, IF d.uart_active THEN 1 ELSE 0),
                        uart_bytes_available)
    IN  write_u32(write_u32(d1, <<0, 0>>), <<0, 0>>)

\* DAP::process_swo_data: nothing has arrived, so UART::read returns None.
process_swo_data(d0) ==
    LET d == next_u16(ResponseWriter_new(d0, 28))
    IN  write_u16(write_u8(d, IF d.uart_active THEN 1 ELSE 0), 0)

\* DAP::process_transfer_configure
process_transfer_configure(d0) ==
    LET d1 == next_u8(ResponseWriter_new(d0, 4))
        d2 == next_u16(d1)
        d3 == next_u16(set_wait_retries(d2, d2.v))
    IN  write_ok(IF d3.pan THEN d3 ELSE [d3 EXCEPT !.match_retries = d3.v])


(***************************************************************************)
(* DAP_Transfer and DAP_TransferBlock.                                     *)
(***************************************************************************)
\* The `while` loop of a value-match read: re-read until the masked value
\* matches or match_retries re-reads were made; an SWD error leaves the loop
\* with the value read last.  The value is left in d.w.
RECURSIVE ValueMatchLoop(_, _, _, _, _, _, _)
ValueMatchLoop(d, apndp, a, target_value, match_mask, read_value, match_tries) ==
    IF d.pan THEN d
    ELSE IF And32(read_value, match_mask) = target_value
    THEN [d EXCEPT !.w = read_value]
    ELSE IF match_tries + 1 > d.match_retries
    THEN [d EXCEPT !.w = read_value]
    ELSE LET d1 == check(swd_read(d, apndp, a), 2)
         IN  IF d1.pan THEN d1
             ELSE IF d1.brk THEN [d1 EXCEPT !.w = read_value]
             ELSE ValueMatchLoop(d1, apndp, a, target_value, match_mask,
                                 d1.res.value, match_tries + 1)

\* The `for` loop of process_transfer from transfer_idx on.  Each step of an
\* iteration is an operator of its own that takes the call record the step
\* before it left.
RECURSIVE TransferLoop(_, _, _, _)

\* ReadPosted as it would be if the value of a posted AP read were taken from
\* the AP read itself.
ReadPosted_without_rdbuff(posted) == posted

\* The read of RDBUFF that follows a posted AP read, unless that read failed.
ReadPosted(posted) ==
    IF posted.pan \/ posted.brk THEN posted
    ELSE check(read_dp(posted, RDBUFF), 2)

\* The end of a value-match read: a value that still differs sets the
\* mismatch flag and leaves the loop.  d.w is the value read last.
MatchDone(d, target_value, match_mask, transfer_idx, ntransfers) ==
    IF d.pan THEN d
    ELSE IF And32(d.w, match_mask) # target_value
    THEN write_u8_at(d, 1, BitOr(read_u8_at(d, 1), 16))
    ELSE TransferLoop(d, transfer_idx + 1, ntransfers, match_mask)

\* MatchStart as it would be if the first read counted as a retry.
MatchStart_one_try_less(d, apndp, a, match_mask, transfer_idx, ntransfers) ==
    IF d.pan THEN d
    ELSE MatchDone(ValueMatchLoop(d, apndp, a, d.w, match_mask, d.res.value, 1),
                   d.w, match_mask, transfer_idx, ntransfers)

\* A value-match read once its target value has been taken from the request
\* (d.w); d.res holds the value read first.
MatchStart(d, apndp, a, match_mask, transfer_idx, ntransfers) ==
    IF d.pan THEN d
    ELSE MatchDone(ValueMatchLoop(d, apndp, a, d.w, match_mask, d.res.value, 0),
                   d.w, match_mask, transfer_idx, ntransfers)

\* What follows the register read of a read transfer: leave the loop on an
\* error, else match the value or save it.
ReadDone(d, apndp, a, vmatch, match_mask, transfer_idx, ntransfers) ==
    IF d.pan \/ d.brk THEN d
    ELSE IF vmatch
    THEN MatchStart(next_u32(d), apndp, a, match_mask, transfer_idx, ntransfers)
    ELSE TransferLoop(write_u32([d EXCEPT !.reads = @ + 1], d.res.value),
                      transfer_idx + 1, ntransfers, match_mask)

\* A write transfer once its value has been taken from the request (d.w).
WriteDone(d, apndp, a, match_mask, transfer_idx, ntransfers) ==
    IF d.pan \/ d.brk THEN d
    ELSE TransferLoop(d, transfer_idx + 1, ntransfers, match_mask)

WriteStart(d, apndp, a, match_mask, transfer_idx, ntransfers) ==
    WriteDone(check(swd_write(d, apndp, a, d.w), 2), apndp, a, match_mask,
              transfer_idx, ntransfers)

\* A match-mask transfer once the mask has been taken from the request (d.w).
MaskDone(d, transfer_idx, ntransfers) ==
    TransferLoop(d, transfer_idx + 1, ntransfers, d.w)

\* The iteration once the transfer request has been taken (d.v).
TransferStep(d, transfer_idx, ntransfers, match_mask) ==
    LET transfer_req == d.v
        apndp == BitAnd(transfer_req, 1)
        rnw == BitAnd(transfer_req, 2) # 0
        a == BitAnd(transfer_req, 12) \div 4
        vmatch == BitAnd(transfer_req, 16) # 0
        mmask == BitAnd(transfer_req, 32) # 0
    IN  IF d.pan THEN d
        ELSE IF rnw
        THEN ReadDone(IF apndp = 1 THEN ReadPosted(check(read_ap(d, a), 2))
                      ELSE check(read_dp(d, a), 2),
                      apndp, a, vmatch, match_mask, transfer_idx, ntransfers)
        ELSE IF mmask THEN MaskDone(next_u32(d), transfer_idx, ntransfers)
        ELSE WriteStart(next_u32(d), apndp, a, match_mask, transfer_idx,
                        ntransfers)

TransferLoop(d, transfer_idx, ntransfers, match_mask) ==
    IF d.pan \/ transfer_idx >= ntransfers THEN d
    ELSE TransferStep(next_u8(write_u8_at([d EXCEPT !.exec = transfer_idx + 1],
                                          1, transfer_idx + 1)),
                      transfer_idx, ntransfers, match_mask)

\* DAP::process_transfer
dap_process_transfer(d0) ==
    LET d1 == next_u8(ResponseWriter_new(d0, 5))
        d2 == next_u8(d1)
        ntransfers == d2.v
    IN  TransferLoop(write_u16(d2, 0), 0, ntransfers, <<65535, 65535>>)

\* The `for` loop of process_transfer_block from transfer_idx on; d.v is
\* `transfers`.
RECURSIVE BlockLoop(_, _, _, _, _, _)

\* What follows the register read of an iteration.
BlockReadDone(d, transfer_idx, ntransfers, apndp, rnw, a) ==
    IF d.pan \/ d.brk THEN d
    ELSE BlockLoop(write_u32(d, d.res.value), transfer_idx + 1, ntransfers,
                   apndp, rnw, a)

\* What follows the register write of an iteration.
BlockWriteDone(d, transfer_idx, ntransfers, apndp, rnw, a) ==
    IF d.pan \/ d.brk THEN d
    ELSE BlockLoop(d, transfer_idx + 1, ntransfers, apndp, rnw, a)

\* A write once its value has been taken from the request (d.w).
BlockWriteStart(d, transfer_idx, ntransfers, apndp, rnw, a) ==
    BlockWriteDone(check(swd_write(d, apndp, a, d.w), 3), transfer_idx,
                   ntransfers, apndp, rnw, a)

BlockLoop(d, transfer_idx, ntransfers, apndp, rnw, a) ==
    IF d.pan \/ transfer_idx >= ntransfers THEN d
    ELSE IF rnw
    THEN BlockReadDone(
            IF apndp = 1
            THEN IF transfer_idx < ntransfers - 1
                 THEN check(read_ap([d EXCEPT !.v = transfer_idx], a), 3)
                 ELSE check(read_dp([d EXCEPT !.v = transfer_idx], RDBUFF), 3)
            ELSE check(read_dp([d EXCEPT !.v = transfer_idx], a), 3),
            transfer_idx, ntransfers, apndp, rnw, a)
    ELSE BlockWriteStart(next_u32([d EXCEPT !.v = transfer_idx]), transfer_idx,
                         ntransfers, apndp, rnw, a)

\* The end of process_transfer_block: the number of transfers goes to the
\* response.
BlockFinish(d) == write_u16_at(d, 1, d.v + 1)

\* process_transfer_block once the first AP read has been posted.
BlockPosted(d, ntransfers, apndp, rnw, a) ==
    IF d.pan THEN d
    ELSE IF rnw /\ apndp = 1 /\ d.brk THEN write_u16_at(d, 1, 1)
    ELSE BlockFinish(BlockLoop([d EXCEPT !.v = 0], 0, ntransfers, apndp, rnw, a))

\* process_transfer_block as it would be if the first AP read were not
\* posted before the loop.
BlockStart_without_posted(d, ntransfers) ==
    LET transfer_req == d.v
        apndp == BitAnd(transfer_req, 1)
        rnw == BitAnd(transfer_req, 2) # 0
        a == BitAnd(transfer_req, 12) \div 4
    IN  BlockPosted(write_u8(write_u16(d, 0), 0), ntransfers, apndp, rnw, a)

\* process_transfer_block once the request has been parsed: d.v is
\* transfer_req.
BlockStart(d, ntransfers) ==
    LET transfer_req == d.v
        apndp == BitAnd(transfer_req, 1)
        rnw == BitAnd(transfer_req, 2) # 0
        a == BitAnd(transfer_req, 12) \div 4
    IN  BlockPosted(IF rnw /\ apndp = 1
                    THEN check(read_ap(write_u8(write_u16(d, 0), 0), a), 3)
                    ELSE write_u8(write_u16(d, 0), 0),
                    ntransfers, apndp, rnw, a)

\* DAP::process_transfer_block
process_transfer_block(d0) ==
    LET d2 == next_u16(next_u8(ResponseWriter_new(d0, 6)))
    IN  BlockStart(next_u8(d2), d2.v)

\* DAP::process_transfer_abort
process_transfer_abort(d0) == ReturnNone(d0)

\* The bytes Command::try_from accepts.
Command ==
    {0, 1, 2, 3, 8, 9, 10, 16, 17, 18, 19, 29, 23, 24, 25, 26, 27, 30, 28,
     20, 21, 22, 4, 5, 6, 7, 127, 126, 255}

\* DAP::process_command, with Request::from_report.  d.some tells whether it
\* returns Some(response); the response is then d.buf.
process_command(d0, report) ==
    IF Len(report) = 0 \/ report[1] \notin Command THEN ReturnNone(d0)
    ELSE
    LET d == [d0 EXCEPT !.data = SubSeq(report, 2, Len(report)), !.some = TRUE]
        command == report[1]
    IN  CASE command = 0 -> process_info(d)
          [] command = 1 -> process_host_status(d)
          [] command = 2 -> process_connect(d)
          [] command = 3 -> process_disconnect(d)
          [] command = 8 -> process_write_abort(d)
          [] command = 9 -> process_delay(d)
          [] command = 10 -> process_reset_target(d)
          [] command = 16 -> process_swj_pins(d)
          [] command = 17 -> process_swj_clock(d)
          [] command = 18 -> process_swj_sequence(d)
          [] command = 19 -> process_swd_configure(d)
          [] command = 23 -> process_swo_transport(d)
          [] command = 24 -> process_swo_mode(d)
          [] command = 25 -> process_swo_baudrate(d)
          [] command = 26 -> process_swo_control(d)
          [] command = 27 -> process_swo_status(d)
          [] command = 30 -> process_swo_extended_status(d)
          [] command = 28 -> process_swo_data(d)
          [] command = 4 -> process_transfer_configure(d)
          [] command = 5 -> dap_process_transfer(d)
          [] command = 6 -> process_transfer_block(d)
          [] command = 7 -> process_transfer_abort(d)
          [] OTHER -> ResponseWriter_new(d, 255)


(***************************************************************************)
(* The inputs of the DAP model: the reports the host sends and the answers *)
(* of the target.                                                          *)
(***************************************************************************)
RECURSIVE Concat(_)
Concat(ss) == IF ss = <<>> THEN <<>> ELSE Head(ss) \o Concat(Tail(ss))

RECURSIVE SeqsUpTo(_, _)
SeqsUpTo(S, n) ==
    IF n = 0 THEN {<<>>}
    ELSE LET shorter == SeqsUpTo(S, n - 1)
         IN  shorter \cup {Append(s, x) : s \in shorter, x \in S}

Repeat(x, n) == [i \in 1..n |-> x]

\* The transfer requests of DAP_Transfer, each with its operand.
ElemReadDP == <<14>>                    \* read DP RDBUFF
ElemReadAP == <<3>>                     \* read AP register 0
ElemWriteAP == <<5, 120, 86, 52, 18>>   \* write AP register 4: 0x12345678
ElemMask == <<32, 240, 0, 0, 0>>        \* match mask := 0x000000F0
ElemMatch == <<22, 64, 0, 0, 0>>        \* read DP CTRL/STAT, match 0x00000040
Elements == {ElemReadDP, ElemReadAP, ElemWriteAP, ElemMask, ElemMatch}

TransferReport(elems) == <<5, 0, Len(elems)>> \o Concat(elems)
BlockReport(n, transfer_req, words) ==
    <<6, 0>> \o u16_to_le_bytes(n) \o <<transfer_req>> \o Concat(words)
ConfigureReport(wait, match) ==
    <<4, 0>> \o u16_to_le_bytes(wait) \o u16_to_le_bytes(match)

\* A read of more registers than a response has room for.
LongRead == RbufLen \div 4

TransferReports ==
    {TransferReport(es) : es \in SeqsUpTo(Elements, MaxElems)}
    \cup {BlockReport(n, 14, <<>>) : n \in 0..MaxElems}
    \cup {BlockReport(n, 3, <<>>) : n \in 0..MaxElems}
    \cup {BlockReport(n, 5, Repeat(<<120, 86, 52, 18>>, n)) : n \in 0..MaxElems}
    \cup {  TransferReport(Repeat(ElemReadDP, LongRead)),
            BlockReport(LongRead, 14, <<>>),
            BlockReport(2, 5, <<<<1, 0, 0, 0>>>>),  \* two writes, one word
            <<5>>, <<5, 0>>, <<5, 0, 1>>, <<5, 0, 2, 14>>, <<5, 0, 1, 22, 64>>,
            <<6, 0, 1>> }

ConfigureReports == {ConfigureReport(0, 0), ConfigureReport(1, 3)}

OtherReports ==
    {   <<>>,
        <<0, 1>>, <<0, 4>>, <<0, 240>>, <<0, 253>>, <<0, 254>>, <<0, 255>>,
        <<0, 7>>, <<0>>,
        <<1, 0, 1>>, <<1, 0, 0>>, <<1, 1, 1>>,
        <<2, 0>>, <<2, 1>>, <<2, 2>>, <<2, 3>>, <<2>>,
        <<3>>,
        <<8, 0, 30, 0, 0, 0>>, <<8>>,
        <<9, 10, 0>>, <<10>>,
        <<16, 0, 128, 0, 0, 0, 0>>, <<16, 128, 128, 0, 0, 0, 0>>,
        <<16, 0, 0, 0, 0, 0, 0>>,
        <<17, 64, 66, 15, 0>>, <<17, 100, 0, 0, 0>>,
        <<18, 8, 255>>, <<18, 51, 255, 255, 255, 255, 255, 255, 255>>,
        <<18, 7, 0>>, <<18, 16, 255>>,
        <<19, 0>>, <<19, 1>>,
        <<23, 2>>, <<23, 0>>, <<23, 3>>, <<24, 1>>, <<24, 2>>,
        <<25, 0, 194, 1, 0>>, <<26, 1>>, <<26, 0>>, <<27>>, <<30>>,
        <<28, 10, 0>>,
        <<7>>,
        \* commands of the Command enum that no handler implements
        <<29>>, <<20, 0>>, <<21>>, <<22>>, <<127>>, <<126>>, <<255>>,
        \* bytes that are no Command
        <<11>>, <<32, 0>>, <<128>>, <<254>>,
        \* a few transfers
        TransferReport(<<ElemReadDP>>), TransferReport(<<ElemWriteAP>>),
        BlockReport(1, 3, <<>>) }

Answer(ack, data, parity) == [ack |-> ack, data |-> data, parity |-> parity]
AnsHigh == Answer(ACK_OK, <<79, 32768>>, 0)     \* 0x8000004F
AnsMatch == Answer(ACK_OK, <<64, 0>>, 1)        \* 0x00000040
AnsOther == Answer(ACK_OK, <<1, 0>>, 1)         \* 0x00000001
AnsBadParity == Answer(ACK_OK, <<1, 0>>, 0)
AnsWait == Answer(ACK_WAIT, <<0, 0>>, 0)
AnsFault == Answer(ACK_FAULT, <<0, 0>>, 0)
AnsProtocol == Answer(ACK_PROTOCOL, <<0, 0>>, 0)
AnsSilent == Answer(0, <<0, 0>>, 0)
Answers == {AnsHigh, AnsMatch, AnsOther, AnsBadParity, AnsWait, AnsFault,
            AnsProtocol, AnsSilent}

\* The target's answers to a command: an explicit part of 1 to MaxScript
\* answers, the last of which repeats.
Scripts == SeqsUpTo(Answers, MaxScript) \ {<<>>}

Input(report, script, ext) == [report |-> report, script |-> script, ext |-> ext]

UsesSWD(report) == Len(report) > 0 /\ report[1] \in {5, 6, 8}
ReadsPins(report) == Len(report) > 0 /\ report[1] = 16

InputsOf(reports, scripts) ==
    {Input(r, s, e) : r \in reports, s \in scripts, e \in {0, 1}}

\* Inputs of the specification of the whole command set, and of the one of
\* the transfer commands.
DapInputs ==
    {i \in InputsOf(OtherReports \cup ConfigureReports,
                    {<<AnsMatch>>, <<AnsWait>>, <<AnsFault>>}) :
        /\ ~UsesSWD(i.report) => i.script = <<AnsMatch>>
        /\ ~ReadsPins(i.report) => i.ext = 1}

XferInputs ==
    {i \in InputsOf(TransferReports \cup ConfigureReports, Scripts) :
        /\ ~UsesSWD(i.report) => i.script = <<AnsMatch>>
        /\ i.ext = 1}

(***************************************************************************)
(* The DAP v1 endpoint and the application's handling of its reports.      *)
(***************************************************************************)
DapInit ==
    /\ configured = FALSE
    /\ swo_streaming = FALSE
    /\ match_retries = 5
    /\ wait_retries = 8
    /\ pins = PinsSetup
    /\ spi_enabled = FALSE
    /\ spi_clock = 0
    /\ uart_active = FALSE
    /\ dap_in = None
    /\ out = None

\* DAP1Endpoint::process_rx_complete: a report of the host arrives and is
\* handed to the application as Request::DAP1Command.
DAP1ReportOf(inputs) ==
    /\ ~panicked
    /\ dap_enabled
    /\ dap_in = None
    /\ out = None
    /\ \E i \in inputs : dap_in' = Some(i)
    /\ UNCHANGED <<configured, swo_streaming, match_retries, wait_retries, pins,
                   spi_enabled, spi_clock, uart_active, out, panicked, ctlVars,
                   appVars, sysVars>>

\* ---------------------------------------------------------------------
\* The coordinator (app.rs): the modes, the pin transitions of SetMode,
\* SPITransmit and Suspend.
\* ---------------------------------------------------------------------

\* Pins::flash_mode
flash_mode(p) ==
    [p EXCEPT !.cs.mode = "output",
              !.sck.mode = "alternate",
              !.fpga_so.mode = "input",
              !.fpga_si.mode = "input",
              !.flash_so.otype = "pushpull", !.flash_so.mode = "alternate",
              !.flash_si.mode = "alternate",
              !.fpga_rst.otype = "opendrain", !.fpga_rst.mode = "output"]

\* Pins::fpga_mode
fpga_mode(p) ==
    [p EXCEPT !.cs.mode = "output",
              !.sck.mode = "alternate",
              !.flash_so.mode = "input",
              !.flash_si.mode = "input",
              !.fpga_so.mode = "alternate",
              !.fpga_si.mode = "alternate",
              !.fpga_rst.otype = "opendrain", !.fpga_rst.mode = "output"]

\* Pins::jtag_mode
jtag_mode(p) ==
    [p EXCEPT !.sck.mode = "output",
              !.flash_si.mode = "output",
              !.cs.mode = "input",
              !.fpga_rst.otype = "pushpull", !.fpga_rst.mode = "output",
              !.flash_so.otype = "opendrain", !.flash_so.mode = "output",
              !.fpga_si.mode = "input",
              !.fpga_so.mode = "input"]

\* enum Mode
Modes == {"HighImpedance", "Flash", "FPGA", "JTAG"}

\* The pin transition of each arm of Request::SetMode.
ModePins(m, p) ==
    CASE m = "HighImpedance" -> high_impedance_mode(p)
      [] m = "Flash" -> flash_mode(p)
      [] m = "FPGA" -> fpga_mode(p)
      [] m = "JTAG" -> jtag_mode(p)

\* The name of that transition.
ModeTransition(m) ==
    CASE m = "HighImpedance" -> "high_impedance_mode"
      [] m = "Flash" -> "flash_mode"
      [] m = "FPGA" -> "fpga_mode"
      [] m = "JTAG" -> "jtag_mode"

\* SPI::setup_spi: BR is Div4, SPE is Disabled.
setup_spi_clock == 1

\* What the model remembers of the pin transitions, to state properties of
\* sequences of them:
\*   last      the pin transition made last ("command" when a DAP command
\*             other than DAP_Connect and DAP_Disconnect has changed a pin
\*             since)
\*   asserted  the host has asserted nRESET through DAP_SWJ_Pins since the
\*             last high_impedance_mode
\*   attached  DAP_Connect has put the pins in SWD mode, and neither
\*             DAP_Disconnect nor SetMode nor Suspend has been processed since
\*   before    the pins before the DAP_Disconnect processed last, if it was
\*             processed while attached, while nothing else has been
\*             processed since
\*   restored  those pins, once the DAP_Connect that follows has succeeded
AppObs(last, asserted, attached, before, restored) ==
    [last |-> last, asserted |-> asserted, attached |-> attached,
     before |-> before, restored |-> restored]

\* The observation after DAP::process_command has processed `report` and
\* left the state `d`.
AppAfterCommand(report, d) ==
    LET cmd == IF Len(report) = 0 THEN 256 ELSE report[1]
        connect == cmd = 2 /\ ~d.pan /\ Len(report) >= 2 /\ report[2] \in {0, 1}
        disconnect == cmd = 3 /\ ~d.pan
        low == cmd = 16 /\ ~d.pan /\ BitAnd(report[3], 128) # 0
                        /\ BitAnd(report[2], 128) = 0
    IN  AppObs(CASE connect -> "swd_mode"
                 [] disconnect -> "high_impedance_mode"
                 [] d.pins # pins -> "command"
                 [] OTHER -> app.last,
               CASE disconnect -> FALSE
                 [] low -> TRUE
                 [] OTHER -> app.asserted,
               CASE connect -> TRUE
                 [] disconnect -> FALSE
                 [] OTHER -> app.attached,
               IF disconnect /\ app.attached THEN Some(pins) ELSE None,
               IF connect THEN app.before ELSE None)

\* App::new, Pins::setup and the bulk endpoints after USB::setup: the DAP
\* interfaces accept packets, the SPI bulk interface does not.
AppInit ==
    /\ mode = "HighImpedance"
    /\ spi_data_enabled = FALSE
    /\ dap_enabled = TRUE
    /\ spi_in = None
    /\ spi_out = None
    /\ app = AppObs("setup", FALSE, FALSE, None, None)

\* SetMode without the SPI bulk endpoint in JTAG mode.
SpiDataAfter_without_jtag(m) == m \in {"Flash", "FPGA"}

\* USB::spi_data_enable and USB::spi_data_disable as the arms of
\* Request::SetMode call them: whether the SPI bulk endpoint takes OUT
\* packets after SetMode(m).
SpiDataAfter(m) == m \in {"Flash", "FPGA", "JTAG"}

\* USB::dap_enable and USB::dap_disable as the arms of Request::SetMode
\* call them: whether the DAP endpoints take OUT packets after SetMode(m).
DapAfter(m) == m = "HighImpedance"

\* App::process_request, the arm of Request::SetMode(m).
SetMode(m) ==
    /\ ~panicked
    /\ mode' = m
    /\ pins' = ModePins(m, pins)
    /\ spi_data_enabled' = SpiDataAfter(m)
    /\ dap_enabled' = DapAfter(m)
    /\ spi_enabled' = FALSE
    /\ spi_clock' = IF m \in {"Flash", "FPGA"} THEN setup_spi_clock ELSE spi_clock
    /\ app' = AppObs(ModeTransition(m),
                     IF m = "HighImpedance" THEN FALSE ELSE app.asserted,
                     FALSE, None, None)
    /\ UNCHANGED <<configured, swo_streaming, match_retries, wait_retries,
                   uart_active, dap_in, out, spi_in, spi_out, panicked, ctlVars,
                   sysVars>>

\* App::process_request, the arm of Request::Suspend.
Suspend ==
    /\ ~panicked
    /\ pins' = [high_impedance_mode(pins) EXCEPT !.led.odr = 0, !.tpwr_en.odr = 0]
    /\ app' = AppObs("high_impedance_mode", FALSE, FALSE, None, None)
    /\ UNCHANGED <<configured, swo_streaming, match_retries, wait_retries,
                   spi_enabled, spi_clock, uart_active, dap_in, out, mode,
                   spi_data_enabled, dap_enabled, spi_in, spi_out, panicked,
                   ctlVars, sysVars>>

\* JTAG::bytes_for_bits
bytes_for_bits(bits) == (bits + 7) \div 8

\* The level on TDO at clock `k` of a request (counted from 0): the target
\* shifts out the bits of the byte `ext`, least significant first, again
\* and again.
tdo_level(ext, k) == (ext \div (2 ^ (k % 8))) % 2

\* One event on the JTAG pins.
Ev(e, v) == [e |-> e, v |-> v]

\* JTAG::transfer_rw with TDO read after the clock pulse rather than before.
sample_tdo_after_clock(p, ext, k, i) ==
    get_state(p.cs, tdo_level(ext, k + 1)) * (2 ^ (i % 8))

\* JTAG::transfer_rw, `(self.pins.tdo.get_state() as u8) << bit_idx`: what
\* the sample of bit `i` of a transfer, taken at clock `k` of the request,
\* adds to its byte of tdo.
sample_tdo(p, ext, k, i) ==
    get_state(p.cs, tdo_level(ext, k)) * (2 ^ (i % 8))

\* Bit `i` of the TDI data, least significant bit of the first byte first.
tdi_bit(tdi, i) == (tdi[i \div 8 + 1] \div (2 ^ (i % 8))) % 2

\* JTAG::transfer_rw, the byte of tdo that holds the bits `i` to `hi` of a
\* transfer: `*tdo |= ...` for each of them.
RECURSIVE tdo_byte(_, _, _, _, _)
tdo_byte(p, ext, k0, i, hi) ==
    IF i > hi THEN 0
    ELSE BitOr(sample_tdo(p, ext, k0 + i, i), tdo_byte(p, ext, k0, i + 1, hi))

\* JTAG::transfer_rw and JTAG::transfer_wo: for each of the `n` bits, as
\* far as there are bytes of TDI data, set TDI, read TDO when capturing,
\* then set TCK high and low.  `t` holds the pins and the events so far;
\* `k0` is the number of clocks the request made before this transfer.
transfer_bits(n, tdi, capture, ext, k0, t) ==
    LET m == IF n < 8 * Len(tdi) THEN n ELSE 8 * Len(tdi)
        g == IF capture THEN 4 ELSE 3
    IN  [pins |-> IF m = 0 THEN t.pins
                  ELSE [t.pins EXCEPT !.fpga_rst.odr = tdi_bit(tdi, m - 1),
                                      !.sck.odr = 0],
         rx |-> IF capture
                THEN [c \in 1..((m + 7) \div 8) |->
                         tdo_byte(t.pins, ext, k0, 8 * (c - 1),
                                  IF 8 * c - 1 < m - 1 THEN 8 * c - 1 ELSE m - 1)]
                ELSE <<>>,
         events |-> t.events \o
                    [x \in 1..(m * g) |->
                        CASE (x - 1) % g = 0 -> Ev("tdi", tdi_bit(tdi, (x - 1) \div g))
                          [] (x - 1) % g = g - 2 -> Ev("tck", 1)
                          [] (x - 1) % g = g - 1 -> Ev("tck", 0)
                          [] OTHER -> Ev("tdo", (x - 1) \div g)]]

\* JTAG::transfer: set TMS, then the transfer with or without capture.
transfer(p, n, tms, tdi, capture, ext, k0) ==
    transfer_bits(n, tdi, capture, ext, k0,
        [pins |-> [p EXCEPT !.flash_si.odr = IF tms # 0 THEN 1 ELSE 0],
         events |-> <<Ev("tms", IF tms # 0 THEN 1 ELSE 0)>>])

\* JTAG::sequences before its loop: nothing written to rxbuf, no clock made.
NoSequences(p) ==
    [pins |-> p, rx |-> <<>>, clocks |-> 0, captures |-> <<>>, events |-> <<>>]

\* The number of clocks of a sequence without taking 0 for 64.
seq_nbits_zero(header) == BitAnd(header, 63)

\* JTAG::sequences, `let nbits = if nbits == 0 { 64 } else { nbits }`.
seq_nbits(header) ==
    IF BitAnd(header, 63) = 0 THEN 64 ELSE BitAnd(header, 63)

\* JTAG::sequences, the loop over the sequences: `k` of them are left and
\* `data` is what is left of the request; `j` holds the pins, the bytes
\* written to rxbuf, the number of clocks made, the lengths of the captures
\* and the events on the pins.
RECURSIVE sequences_loop(_, _, _, _)

\* JTAG::sequences, the end of one pass of the loop: the transfer `t` has
\* been made, `rxidx += nbytes` when it captured.
sequences_step(k, data, ext, j, nbits, nbytes, capture, t) ==
    sequences_loop(k - 1, SubSeq(data, nbytes + 2, Len(data)), ext,
        [pins |-> t.pins,
         rx |-> IF capture THEN j.rx \o t.rx ELSE j.rx,
         clocks |-> j.clocks + nbits,
         captures |-> IF capture THEN Append(j.captures, nbits) ELSE j.captures,
         events |-> j.events \o t.events])

sequences_loop(k, data, ext, j) ==
    IF k = 0 \/ Len(data) = 0 THEN j
    ELSE LET header == data[1]
             capture == BitAnd(header, 128)
             tms == BitAnd(header, 64)
             nbits == seq_nbits(header)
             nbytes == bytes_for_bits(nbits)
         IN  IF Len(data) - 1 < nbytes THEN j
             ELSE sequences_step(k, data, ext, j, nbits, nbytes, capture # 0,
                      transfer(j.pins, nbits, tms, SubSeq(data, 2, nbytes + 1),
                               capture # 0, ext, j.clocks))

\* JTAG::sequences
sequences(p, data, ext) ==
    IF Len(data) = 0 THEN NoSequences(p)
    ELSE sequences_loop(data[1], Tail(data), ext, NoSequences(p))

\* SPI::exchange: as many bytes are received as are sent; the target sends
\* the byte `ext` again and again.
exchange(data, ext) == [i \in 1..Len(data) |-> ext]

\* USB::spi_data_reply: the slice goes to write_tx of the SPI bulk endpoint,
\* which reads the first element of an empty slice.
spi_data_reply(data) ==
    IF Len(data) = 0 THEN [pan |-> TRUE, reply |-> None]
    ELSE [pan |-> FALSE, reply |-> Some(data)]

\* The observation of a SPITransmit: the mode it was dispatched on, its
\* payload, what the target sent, the bytes exchanged on the SPI bus, the
\* clocks made on TCK, the lengths of the captures, the bytes written to
\* rxbuf, the events on the JTAG pins and the reply.
SpiObs(data, ext, exchanged, j, r) ==
    [mode |-> mode, data |-> data, ext |-> ext, exchanged |-> exchanged,
     clocks |-> j.clocks, captures |-> j.captures, rx |-> j.rx,
     events |-> j.events, replied |-> r.reply # None,
     reply |-> IF r.reply = None THEN <<>> ELSE r.reply[1], pan |-> r.pan]

SPITransmitFlash(data, ext) ==
    \E r \in {spi_data_reply(exchange(data, ext))} :
        /\ spi_out' = Some(SpiObs(data, ext, Len(data), NoSequences(pins), r))
        /\ panicked' = r.pan
        /\ pins' = pins

SPITransmitJTAG(data, ext) ==
    \E j \in {sequences(pins, data, ext)} :
        \E r \in {spi_data_reply(j.rx)} :
            /\ spi_out' = Some(SpiObs(data, ext, 0, j, r))
            /\ panicked' = r.pan
            /\ pins' = j.pins

SPITransmitIgnored(data, ext) ==
    /\ spi_out' = Some(SpiObs(data, ext, 0, NoSequences(pins),
                              [pan |-> FALSE, reply |-> None]))
    /\ panicked' = FALSE
    /\ pins' = pins

\* USB::process_spi_data_rx, which takes the packet from the endpoint and
\* lets the endpoint receive again, and App::process_request, the arm of
\* Request::SPITransmit.
SPITransmit ==
    /\ ~panicked
    /\ spi_in # None
    /\ CASE mode \in {"Flash", "FPGA"} -> SPITransmitFlash(spi_in[1].data, spi_in[1].ext)
         [] mode = "JTAG" -> SPITransmitJTAG(spi_in[1].data, spi_in[1].ext)
         [] OTHER -> SPITransmitIgnored(spi_in[1].data, spi_in[1].ext)
    /\ spi_in' = None
    /\ spi_data_enabled' = TRUE
    /\ app' = AppObs(app.last, app.asserted, app.attached, None, None)
    /\ UNCHANGED <<configured, swo_streaming, match_retries, wait_retries,
                   spi_enabled, spi_clock, uart_active, dap_in, out, mode,
                   dap_enabled, ctlVars, sysVars>>

\* The host sends a packet to the SPI bulk OUT endpoint, which takes it when
\* it is enabled; the packet waits in the endpoint for SPITransmit.  The
\* target answers with the byte `ext` (see exchange and tdo_level).
SPIReportOf(payloads, levels) ==
    /\ ~panicked
    /\ spi_data_enabled
    /\ spi_in = None
    /\ spi_out = None
    /\ \E data \in payloads, ext \in levels :
           spi_in' = Some([data |-> data, ext |-> ext])
    /\ UNCHANGED <<dapVars, mode, spi_data_enabled, dap_enabled, spi_out, app,
                   panicked, ctlVars, sysVars>>

\* The exchange is over: the host has taken the reply, or given up waiting
\* for one.
SPIDone ==
    /\ ~panicked
    /\ spi_out # None
    /\ spi_out' = None
    /\ UNCHANGED <<dapVars, mode, spi_data_enabled, dap_enabled, spi_in, app,
                   panicked, ctlVars, sysVars>>

\* DAP1Endpoint::tx_valid and ::rx_valid on EP2R.
dap1_tx_valid(r) == [r EXCEPT !.stat_tx = ToggleWrite(@, stat_valid(@))]
dap1_rx_valid(r) == [r EXCEPT !.stat_rx = ToggleWrite(@, stat_valid(@))]
\* DAP1Endpoint::transmit_slice on EP2R: the response is loaded and made
\* valid.
dap1_transmit_slice(r) == dap1_tx_valid(r)
\* USB::dap1_reply for the response of a command: transmit_slice asserts the
\* length, write_tx reads data[0].
dap1_reply(d) ==
    IF d.pan \/ ~d.some THEN d
    ELSE IF Len(d.buf) > PacketSize \/ d.buf = <<>> THEN DPanic(d)
    ELSE d
\* DAP1Endpoint::process_transfer on EP2R: CTR_TX is cleared if it was set
\* and, if CTR_RX was set, the report is taken (process_rx_complete makes
\* reception valid again) and CTR_RX is cleared.
dap1_process_transfer(r) ==
    LET r1 == IF r.ctr_tx = 1 THEN [r EXCEPT !.ctr_tx = 0] ELSE r
    IN  IF r.ctr_rx = 1
        THEN [r |-> [dap1_rx_valid(r1) EXCEPT !.ctr_rx = 0], req |-> TRUE]
        ELSE [r |-> r1, req |-> FALSE]

\* DAP1Endpoint::process_rx_complete, which takes the report from the
\* endpoint and lets the endpoint receive again, and App::process_request,
\* the arm of Request::DAP1Command: the whole of DAP::process_command, and
\* the reply if it returned one.
DAP1CommandOf(wired) ==
    /\ ~panicked
    /\ dap_in # None
    /\ \E d \in {IF wired
                 THEN dap1_reply(process_command(DState(dap_in[1]),
                                                 dap_in[1].report))
                 ELSE process_command(DState(dap_in[1]), dap_in[1].report)} :
           /\ ep2r' = IF wired /\ ~d.pan /\ d.some
                      THEN dap1_transmit_slice(ep2r) ELSE ep2r
           /\ configured' = d.configured
           /\ swo_streaming' = d.swo_streaming
           /\ match_retries' = d.match_retries
           /\ wait_retries' = d.wait_retries
           /\ pins' = d.pins
           /\ spi_enabled' = d.spi_enabled
           /\ spi_clock' = d.spi_clock
           /\ uart_active' = d.uart_active
           /\ panicked' = d.pan
           /\ out' = Some([report |-> dap_in[1].report,
                           script |-> dap_in[1].script,
                           some |-> ~d.pan /\ d.some,
                           resp |-> IF ~d.pan /\ d.some THEN d.buf ELSE <<>>,
                           wire |-> d.wire, bus |-> d.bus,
                           exec |-> d.exec, reads |-> d.reads, res |-> d.res,
                           pre |-> [configured |-> configured, pins |-> pins,
                                    spi_enabled |-> spi_enabled,
                                    match_retries |-> match_retries,
                                    wait_retries |-> wait_retries]])
           /\ app' = AppAfterCommand(dap_in[1].report, d)
    /\ dap_in' = None
    /\ dap_enabled' = TRUE
    /\ UNCHANGED <<ctlVars, mode, spi_data_enabled, spi_in, spi_out, sysNotEp2,
                   ep2_rx>>

\* The command interpreter with its reply kept in `out` only.
DAP1Command == DAP1CommandOf(FALSE)

\* The exchange is over: the host has taken the reply, or given up waiting
\* for one.
DAP1Done ==
    /\ ~panicked
    /\ out # None
    /\ out' = None
    /\ UNCHANGED <<configured, swo_streaming, match_retries, wait_retries, pins,
                   spi_enabled, spi_clock, uart_active, dap_in, panicked, ctlVars,
                   appVars, sysVars>>

(***************************************************************************)
(* Specifications.                                                         *)
(***************************************************************************)
\* SequenceBuilder::new; `sent` is set once execute has sent the request.
SequenceBuilder_new ==
    [num_sequences |-> 0, capture_length |-> 0, request |-> <<>>, sent |-> FALSE]

\* SWOEndpoint::new and SWOEndpoint::reset_endpoint; the UART has received
\* nothing.
SwoInit ==
    /\ tx_busy = FALSE
    /\ swo_tx = None
    /\ swo_ctr_tx = FALSE
    /\ ep4_stat_tx = DISABLED
    /\ uart_ring = 0

\* The application runs: bootload::check has returned and USB::setup has
\* attached the device.
BootInit ==
    /\ stage = "app"
    /\ latch = <<0, 0>>
    /\ dppu = TRUE
    /\ boot_log = <<>>

\* OPT_USER_VALUE and OPT_RDP_VALUE
OPT_USER_VALUE == 127
OPT_RDP_VALUE == 170
\* FLASH.OBR as the reset loads it from the option bytes: the user byte in
\* bits 15..8, the readout-protection level in bits 2..1 (0 when the
\* protection byte is 0xAA, level 1 otherwise), the data bytes erased.
option_load(user, rdp) ==
    <<256 * user + (IF rdp = OPT_RDP_VALUE THEN 0 ELSE 2), 65535>>

\* A device whose option bytes have the programmed values.
FlashInit ==
    /\ opt_user = OPT_USER_VALUE
    /\ opt_rdp = OPT_RDP_VALUE
    /\ obr = option_load(OPT_USER_VALUE, OPT_RDP_VALUE)
    /\ flash_log = <<>>
    /\ fix_count = 0

\* DAP1Endpoint::configure_endpoint: STAT_TX is NAK and STAT_RX is VALID.
Ep2Init ==
    /\ ep2r = [ctr_tx |-> 0, ctr_rx |-> 0, stat_tx |-> NAK, stat_rx |-> VALID]
    /\ ep2_rx = None

\* No SWD read is under way; SCK idles high (CPOL: IdleHigh).
RdIdle ==
    [pc |-> "idle", sck |-> 1, left |-> 0, per |-> 1, ans |-> None,
     swapped |-> FALSE]
RdInit == rd = RdIdle

\* The target's TAP controller in the state `st`; the host has no TAP yet.
TapIn(st) ==
    [state |-> st, op |-> "none", from |-> st, data |-> <<>>, nbits |-> 0,
     ran |-> FALSE, segs |-> <<>>, shifted |-> <<>>, result |-> "none"]
TapInit == tap = TapIn("RunTestIdle")
\* An endpoint register with STAT_TX = `t` and STAT_RX = `r`, nothing
\* written to it yet.
EprOf(t, r) ==
    [stat |-> [f \in {"tx", "rx"} |-> IF f = "tx" THEN t ELSE r],
     was |-> t, wrote |-> "none", field |-> "tx"]
\* EP0R after usb_reset.
EprInit == epr = EprOf(NAK, VALID)

SysInit ==
    /\ host = SequenceBuilder_new
    /\ SwoInit /\ BootInit /\ FlashInit /\ Ep2Init /\ RdInit /\ TapInit
    /\ EprInit

Init == CtlInit /\ DapInit /\ AppInit /\ SysInit /\ panicked = FALSE

\* The control endpoint under the host's SETUP, IN and OUT transactions.
NextCtl == HostSetup \/ HostIn \/ HostOut \/ Interrupt \/ reply_tpwr
SpecCtl == Init /\ [][NextCtl]_vars

\* The control endpoint under requests it does not support, the requests of
\* the Microsoft OS descriptors, and a few it supports.
Ep0Setups ==
    {   Setup(0, 1, 0, 0),          \* CLEAR_FEATURE: an unknown standard request
        Setup(128, 6, 1536, 10),    \* GET_DESCRIPTOR of an unknown type
        Setup(128, 6, 775, 255),    \* GET_DESCRIPTOR String 7: no such string
        Setup(33, 10, 0, 0),        \* a class request
        Setup(96, 1, 0, 0),         \* a request of the reserved type
        Setup(64, 9, 0, 0),         \* a vendor request that is not listed
        Setup(64, 3, 4, 0),         \* vendor SetMode of an unknown mode
        Setup(64, 1, 2, 0),         \* vendor SetCS of an unknown pin state
        Setup(128, 6, 1006, 18),    \* GET_DESCRIPTOR String 0xEE
        Setup(192, 65, 4, 40),      \* vendor GetOSFeature, bRequest 'A'
        Setup(128, 0, 0, 2),        \* GET_STATUS
        Setup(128, 6, 256, 18),     \* GET_DESCRIPTOR Device
        Setup(64, 6, 0, 0) }        \* vendor SetLED low
Ep0Setup == HostSetupOf(Ep0Setups, MaxSetups)
NextEp0 == Ep0Setup \/ HostIn \/ HostOut \/ Interrupt
SpecEp0 == Init /\ [][NextEp0]_vars

\* The DAP v1 endpoint: the host writes a report to the endpoint while the
\* device can receive, and reads the reply once it is loaded; the interrupt
\* hands the report to the application.
Ep2Inputs ==
    {   Input(<<2, 1>>, <<AnsMatch>>, 1),           \* DAP_Connect, SWD
        Input(<<3>>, <<AnsMatch>>, 1),              \* DAP_Disconnect
        Input(<<1, 0, 1>>, <<AnsMatch>>, 1),        \* DAP_HostStatus
        Input(<<7>>, <<AnsMatch>>, 1),              \* DAP_TransferAbort: no reply
        Input(TransferReport(<<ElemReadDP>>), <<AnsMatch>>, 1),
        Input(TransferReport(<<ElemReadDP>>), <<AnsFault>>, 1),
        Input(<<0>>, <<AnsMatch>>, 1) }             \* DAP_Info cut short
DAP1HostOut ==
    /\ ~panicked
    /\ dap_enabled
    /\ ep2r.stat_rx = VALID
    /\ ep2r.ctr_rx = 0
    /\ dap_in = None
    /\ out = None
    /\ \E i \in Ep2Inputs : ep2_rx' = Some(i)
    /\ ep2r' = [ep2r EXCEPT !.ctr_rx = 1, !.stat_rx = NAK]
    /\ UNCHANGED <<ctlVars, dapVars, panicked, appVars, sysNotEp2>>
DAP1HostIn ==
    /\ ~panicked
    /\ ep2r.stat_tx = VALID
    /\ ep2r.ctr_tx = 0
    /\ ep2r' = [ep2r EXCEPT !.ctr_tx = 1, !.stat_tx = NAK]
    /\ out' = None
    /\ UNCHANGED <<configured, swo_streaming, match_retries, wait_retries, pins,
                   spi_enabled, spi_clock, uart_active, dap_in, panicked, ctlVars,
                   appVars, sysNotEp2, ep2_rx>>
\* USB::interrupt for EP2: one call of DAP1Endpoint::process_transfer.
DAP1Interrupt ==
    /\ ~panicked
    /\ ep2r.ctr_tx = 1 \/ ep2r.ctr_rx = 1
    /\ \E t \in {dap1_process_transfer(ep2r)} :
           /\ ep2r' = t.r
           /\ dap_in' = IF t.req THEN ep2_rx ELSE dap_in
    /\ UNCHANGED <<configured, swo_streaming, match_retries, wait_retries, pins,
                   spi_enabled, spi_clock, uart_active, out, panicked, ctlVars,
                   appVars, sysNotEp2, ep2_rx>>
DAP1CommandReply == DAP1CommandOf(TRUE)
NextEp2 ==
    \/ DAP1HostOut \/ DAP1HostIn \/ DAP1Interrupt \/ DAP1CommandReply
    \/ DAP1Done
SpecEp2 == Init /\ [][NextEp2]_vars

\* The end of SPI::swd_rdata_phase.  After wait_txe the SPI shifts the fifth
\* and final word: 8 clock periods, 16 edges of SCK, which idles high.  The
\* processor samples SCK in two busy-waits; between two samples the clock
\* makes at most `per` edges, which depends on the SPI clock rate.
FinalWordEdges == 16
EdgesPerPoll == {1, 2, FinalWordEdges}
RdAnswers == {AnsHigh, AnsOther, AnsBadParity}
is_high(level) == level = 1
is_low(level) == level = 0
\* One sample of `while pins.sck.is_high() {}` and of
\* `while pins.sck.is_low() {}`; after the second wait the bus is swapped.
rdata_poll_without_wait(pc, level) ==
    IF pc = "wait_high" THEN "wait_low" ELSE "swap"
rdata_poll(pc, level) ==
    CASE pc = "wait_high" -> IF is_high(level) THEN "wait_high" ELSE "wait_low"
      [] pc = "wait_low" -> IF is_low(level) THEN "wait_low" ELSE "swap"
      [] OTHER -> pc
\* swd_rdata_phase up to wait_txe: four words are read, the fifth is
\* triggered.
RdataStart ==
    /\ rd.pc = "idle"
    /\ \E per \in EdgesPerPoll, a \in RdAnswers :
           rd' = [pc |-> "wait_high", sck |-> 1, left |-> FinalWordEdges,
                  per |-> per, ans |-> Some(a), swapped |-> FALSE]
    /\ UNCHANGED <<ctlVars, dapVars, panicked, appVars, sysNotRd>>
\* The clock makes k edges, then the processor samples SCK once.
RdataPoll ==
    /\ rd.pc \in {"wait_high", "wait_low"}
    /\ \E k \in 0..Min(rd.per, rd.left) :
           rd' = [rd EXCEPT !.sck = (@ + k) % 2, !.left = @ - k,
                            !.pc = rdata_poll(@, (rd.sck + k) % 2)]
    /\ UNCHANGED <<ctlVars, dapVars, panicked, appVars, sysNotRd>>
\* pins.swd_tx(), then the final word is received and the phase returns.
RdataSwap ==
    /\ rd.pc = "swap"
    /\ rd' = [rd EXCEPT !.pc = "done", !.swapped = TRUE, !.sck = 1, !.left = 0]
    /\ UNCHANGED <<ctlVars, dapVars, panicked, appVars, sysNotRd>>
\* SWD::read returns; the next read may start.
RdataReturn ==
    /\ rd.pc = "done"
    /\ rd' = RdIdle
    /\ UNCHANGED <<ctlVars, dapVars, panicked, appVars, sysNotRd>>
NextRdata == RdataStart \/ RdataPoll \/ RdataSwap \/ RdataReturn
SpecRdata == Init /\ [][NextRdata]_vars
\* The same with the processor and the clock never stopped.
FairRdata == SpecRdata /\ WF_vars(RdataPoll) /\ WF_vars(RdataSwap)

\* One payload of any length up to MaxPayload through transmit_slice.
TxSetup == HostSetupOf({GetTPwrSetup}, 1)
TxReply == ReplyOf(0..MaxPayload)
NextTx == TxSetup \/ HostIn \/ HostOut \/ Interrupt \/ TxReply
SpecTx == Init /\ [][NextTx]_vars

\* The command interpreter under the whole command set.
DapReport == DAP1ReportOf(DapInputs)
NextDap == DapReport \/ DAP1Command \/ DAP1Done
SpecDap == Init /\ [][NextDap]_vars

\* The command interpreter under the transfer commands.
XferReport == DAP1ReportOf(XferInputs)
NextXfer == XferReport \/ DAP1Command \/ DAP1Done
SpecXfer == Init /\ [][NextXfer]_vars

\* The command interpreter under DAP_SWJ_Sequence with every bit count: the
\* reports carry 32 bytes of sequence data, enough for 256 bits, and a few
\* carry less than their bit count asks for.
SwjData == [i \in 1..32 |-> IF i % 2 = 1 THEN 255 ELSE i]
SwjReports ==
    {<<18, n>> \o SwjData : n \in 0..255}
        \cup {<<18, 16, 255, 255>>, <<18, 16, 255>>, <<18, 0>>, <<18, 51, 255>>}
SwjInputs == {Input(r, <<AnsMatch>>, 1) : r \in SwjReports}
SwjReport == DAP1ReportOf(SwjInputs)
NextSwj == SwjReport \/ DAP1Command \/ DAP1Done
SpecSwj == Init /\ [][NextSwj]_vars

\* ---------------------------------------------------------------------
\* SWO streaming: App::poll, the SWO endpoint and the UART receiver.
\* ---------------------------------------------------------------------
\* Bytes the UART ring buffer holds at most in the model.
MaxRing == 130
\* NVIC::usb_pending: the USB peripheral has an event for its interrupt.
usb_pending == dap_in # None \/ spi_in # None \/ swo_ctr_tx
\* DAP::is_swo_streaming without the test of the UART.
is_swo_streaming_without_uart == swo_streaming
\* DAP::is_swo_streaming
is_swo_streaming == uart_active /\ swo_streaming
\* SWOEndpoint::is_busy
is_busy == tx_busy
\* UART::read into the 64 bytes of DAP.rbuf: the bytes received since the
\* last read, as many as the buffer takes; None when there are none.
uart_read(ring) ==
    IF ring = 0 THEN None
    ELSE Some([i \in 1..(IF ring < RbufLen THEN ring ELSE RbufLen) |-> 170])

\* The UART receives bytes from the target while it is started.
UartRx ==
    /\ ~panicked
    /\ uart_active
    /\ \E k \in {40, 65} :
           /\ uart_ring + k <= MaxRing
           /\ uart_ring' = uart_ring + k
    /\ UNCHANGED <<ctlVars, dapVars, panicked, appVars, sysNotSwo, tx_busy, swo_tx,
                   swo_ctr_tx, ep4_stat_tx>>

\* App::poll, the branch of SWO streaming: DAP::poll_swo and, when it gives
\* data, SWOEndpoint::transmit_slice.
PollSwo ==
    /\ ~panicked
    /\ ~usb_pending
    /\ is_swo_streaming
    /\ ~is_busy
    /\ \E data \in {uart_read(uart_ring)} :
           /\ data # None
           /\ uart_ring' = uart_ring - Len(data[1])
           /\ panicked' = (Len(data[1]) > 64)
           /\ swo_tx' = IF Len(data[1]) > 64 THEN swo_tx ELSE data
           /\ tx_busy' = IF Len(data[1]) > 64 THEN tx_busy ELSE TRUE
           /\ ep4_stat_tx' = IF Len(data[1]) > 64 THEN ep4_stat_tx
                              ELSE ToggleWrite(ep4_stat_tx, stat_valid(ep4_stat_tx))
    /\ UNCHANGED <<ctlVars, dapVars, appVars, sysNotSwo, swo_ctr_tx>>

\* The host reads the packet of EP4: the peripheral sets CTR_TX.
SWOHostRead ==
    /\ ~panicked
    /\ swo_tx # None
    /\ ep4_stat_tx = VALID
    /\ swo_tx' = None
    /\ swo_ctr_tx' = TRUE
    /\ ep4_stat_tx' = NAK
    /\ UNCHANGED <<ctlVars, dapVars, panicked, appVars, sysNotSwo, tx_busy, uart_ring>>

\* App::poll, the branch of the USB interrupt, for EP4:
\* SWOEndpoint::process_transfer.
SWOTxComplete ==
    /\ ~panicked
    /\ swo_ctr_tx
    /\ tx_busy' = FALSE
    /\ swo_ctr_tx' = FALSE
    /\ UNCHANGED <<ctlVars, dapVars, panicked, appVars, sysNotSwo, swo_tx,
                   ep4_stat_tx, uart_ring>>

\* The SWO commands of the host: transport, control and status.
SwoReports ==
    {<<23, 0>>, <<23, 1>>, <<23, 2>>, <<26, 0>>, <<26, 1>>, <<27>>}
SwoInputs == {Input(r, <<AnsMatch>>, 1) : r \in SwoReports}
SwoReport == DAP1ReportOf(SwoInputs)
NextSwo ==
    \/ SwoReport
    \/ DAP1Command
    \/ DAP1Done
    \/ UartRx
    \/ PollSwo
    \/ SWOHostRead
    \/ SWOTxComplete
SpecSwo == Init /\ [][NextSwo]_vars

\* ---------------------------------------------------------------------
\* Reset and boot: bootload::check in pre_init, the Bootload request and
\* bootload::bootload.
\* ---------------------------------------------------------------------
\* FLAG_VALUE, 0xB00110AD, and the word bootload::bootload writes.
FLAG_VALUE == <<4269, 45057>>
bootload_word == <<4269, 45057>>
\* bootload::check that jumps without clearing the flag.
bootload_check_without_clear(l) ==
    IF l # FLAG_VALUE
    THEN [latch |-> l, jump |-> FALSE, log |-> <<"return">>]
    ELSE [latch |-> l, jump |-> TRUE, log |-> <<"remap", "jump">>]
\* bootload::check on the latch value l.
bootload_check(l) ==
    IF l # FLAG_VALUE
    THEN [latch |-> l, jump |-> FALSE, log |-> <<"return">>]
    ELSE [latch |-> <<0, 0>>, jump |-> TRUE, log |-> <<"clear", "remap", "jump">>]
\* bootload::bootload
bootload(l) == [latch |-> bootload_word, log |-> <<"latch", "reset_request">>]

\* Values of the latch at power-up in the model.
LatchValues == {<<0, 0>>, FLAG_VALUE, <<4269, 0>>, <<4268, 45057>>}

\* pre_init calls bootload::check; when it returns, the application is set
\* up and attaches to the bus, otherwise the ROM bootloader runs.
PreInit ==
    /\ stage = "pre_init"
    /\ \E c \in {bootload_check(latch)} :
           /\ latch' = c.latch
           /\ stage' = IF c.jump THEN "rom" ELSE "app"
           /\ dppu' = ~c.jump
           /\ boot_log' = c.log
    /\ UNCHANGED <<ctlVars, dapVars, panicked, appVars, sysNotBoot>>

\* The USB stack has released the Bootload request and the application has
\* not processed it yet.
BootloadDue ==
    /\ stage = "app"
    /\ ctl.ret.req # None
    /\ ctl.ret.req[1].kind = "AppRequestAndDetach"

\* The rest of the poll that released the Bootload request: the stack
\* detaches the D+ pull-up and hands the request to App::process_request,
\* which calls bootload::bootload.
ProcessBootload ==
    /\ ~panicked
    /\ BootloadDue
    /\ \E b \in {bootload(latch)} :
           /\ latch' = b.latch
           /\ boot_log' = boot_log \o <<"detach", "bootload">> \o b.log
    /\ dppu' = FALSE
    /\ stage' = "resetting"
    /\ UNCHANGED <<ctlVars, dapVars, panicked, appVars, sysNotBoot>>

\* The system reset asked for by bootload::bootload, or the one that ends
\* the ROM bootloader: only the latch keeps its value.
SystemReset ==
    /\ stage \in {"resetting", "rom"}
    /\ stage' = "pre_init"
    /\ dppu' = FALSE
    /\ boot_log' = <<>>
    /\ pending_request' = None
    /\ pending_tx' = None
    /\ pending_tx_buf' = [i \in 1..PendingBufLen |-> ZeroByte]
    /\ ep0r' = [ctr_tx |-> 0, ctr_rx |-> 0, setup |-> 0,
                stat_tx |-> NAK, stat_rx |-> VALID]
    /\ epbuf_tx' = [i \in 1..PacketSize |-> ZeroByte]
    /\ count_tx' = 0
    /\ epbuf_rx' = [bmRequestType |-> 0, bRequest |-> 0, wValue |-> 0,
                    wLength |-> 0, sid |-> 0]
    /\ ctl' = [nsetup |-> 0, sid |-> 0, loaded |-> NoPacket, sent |-> NoPacket,
               ret |-> [req |-> None, ev |-> "none", pkt |-> NoPacket],
               wire |-> <<>>, cur |-> [sid |-> 0, len |-> 0], staged |-> 0,
               reply_due |-> FALSE]
    /\ UNCHANGED <<latch, dapVars, panicked, appVars, sysNotBoot>>

\* The control requests of the host in the specification of the boot.
BootSetups ==
    {   Setup(64, 7, 0, 0),         \* vendor Bootload
        Setup(128, 0, 0, 2),        \* GET_STATUS
        Setup(64, 6, 0, 0),         \* vendor SetLED low
        Setup(0, 9, 1, 0) }         \* SET_CONFIGURATION 1
\* The host reaches the device while it is attached; the firmware serves
\* interrupts while the application runs.
BootHostSetup == stage = "app" /\ dppu /\ HostSetupOf(BootSetups, MaxSetups)
BootHostIn == stage = "app" /\ dppu /\ HostIn
BootHostOut == stage = "app" /\ dppu /\ HostOut
BootInterrupt == stage = "app" /\ ~BootloadDue /\ Interrupt
InitBoot ==
    /\ CtlInit /\ DapInit /\ AppInit /\ panicked = FALSE
    /\ host = SequenceBuilder_new /\ SwoInit /\ FlashInit
    /\ Ep2Init /\ RdInit /\ TapInit /\ EprInit
    /\ stage = "pre_init"
    /\ latch \in LatchValues
    /\ dppu = FALSE
    /\ boot_log = <<>>
NextBoot ==
    \/ PreInit
    \/ BootHostSetup
    \/ BootHostIn
    \/ BootHostOut
    \/ BootInterrupt
    \/ ProcessBootload
    \/ SystemReset
SpecBoot == InitBoot /\ [][NextBoot]_vars

\* ---------------------------------------------------------------------
\* The option bytes: Flash::setup at every boot.
\* ---------------------------------------------------------------------
\* Runs of set_option_byte the model follows.
MaxFixes == 2
\* Flash::read_option_byte
read_option_byte(w) == And32(w, <<65280, 0>>)[1] \div 256
\* Flash::set_option_byte that does not program the user byte.
set_option_byte_without_user(value) ==
    [user |-> 255, rdp |-> OPT_RDP_VALUE,
     log |-> <<"unlock_flash", "unlock_opt", "erase_opt", "program_opt_rdp",
               "lock_opt", "lock_flash", "reload_opt">>]
\* Flash::set_option_byte: erase_opt leaves all option bytes 0xFF, then the
\* two bytes are programmed.
set_option_byte(value) ==
    [user |-> value, rdp |-> OPT_RDP_VALUE,
     log |-> <<"unlock_flash", "unlock_opt", "erase_opt", "program_opt_rdp",
               "program_opt_user", "lock_opt", "lock_flash", "reload_opt">>]

\* Flash::setup, the first call of App::setup.  When it programs the option
\* bytes it ends in the reset of reload_opt.
FlashSetup ==
    /\ stage = "setup"
    /\ IF read_option_byte(obr) # OPT_USER_VALUE
       THEN /\ fix_count < MaxFixes
            /\ \E o \in {set_option_byte(OPT_USER_VALUE)} :
                   /\ opt_user' = o.user
                   /\ opt_rdp' = o.rdp
                   /\ flash_log' = o.log
            /\ fix_count' = fix_count + 1
            /\ stage' = "resetting"
       ELSE /\ flash_log' = <<>>
            /\ stage' = "app"
            /\ UNCHANGED <<opt_user, opt_rdp, fix_count>>
    /\ UNCHANGED <<ctlVars, dapVars, panicked, appVars, extVars, host, swoVars, latch,
                   dppu, boot_log, obr>>

\* A reset, that of reload_opt or a later one of the running device, loads
\* FLASH.OBR from the option bytes; the boot then comes to App::setup.
OptionReset ==
    /\ stage \in {"resetting", "app"}
    /\ obr' = option_load(opt_user, opt_rdp)
    /\ stage' = "setup"
    /\ UNCHANGED <<ctlVars, dapVars, panicked, appVars, extVars, host, swoVars, latch,
                   dppu, boot_log, opt_user, opt_rdp, flash_log, fix_count>>

\* The option bytes of a device before its first boot.
OptionBytes == 0..255
InitFlash ==
    /\ CtlInit /\ DapInit /\ AppInit /\ panicked = FALSE
    /\ host = SequenceBuilder_new /\ SwoInit
    /\ Ep2Init /\ RdInit /\ TapInit /\ EprInit
    /\ latch = <<0, 0>> /\ dppu = FALSE /\ boot_log = <<>>
    /\ stage = "setup"
    /\ opt_user \in OptionBytes
    /\ opt_rdp \in {OPT_RDP_VALUE, 255}
    /\ obr = option_load(opt_user, opt_rdp)
    /\ flash_log = <<>>
    /\ fix_count = 0
NextFlash == FlashSetup \/ OptionReset
SpecFlash == InitFlash /\ [][NextFlash]_vars

\* The command interpreter under one transfer of every register and
\* direction: DAP_Transfer with the transfer requests 0 to 15.
ReqReport(transfer_req) ==
    TransferReport(<<IF BitAnd(transfer_req, 2) # 0 THEN <<transfer_req>>
                     ELSE <<transfer_req, 1, 0, 0, 0>>>>)
ReqInputs ==
    {Input(ReqReport(t), <<ans>>, 1) : t \in 0..15, ans \in Answers}
ReqReportIn == DAP1ReportOf(ReqInputs)
NextReq == ReqReportIn \/ DAP1Command \/ DAP1Done
SpecReq == Init /\ [][NextReq]_vars

\* The coordinator under mode changes, suspension, SPITransmit packets and
\* the DAP commands that change the pins: DAP_Connect to the SWD port and
\* to a port that is not supported, DAP_Disconnect, DAP_SWJ_Pins asserting
\* and releasing nRESET, and DAP_WriteABORT.
AppReports ==
    {<<2, 1>>, <<2, 2>>, <<3>>, <<16, 0, 128, 0, 0, 0, 0>>,
     <<16, 128, 128, 0, 0, 0, 0>>, <<8, 0, 1, 0, 0, 0>>}
AppInputs == {Input(r, <<AnsMatch>>, 1) : r \in AppReports}

\* The SPITransmit payloads.  Read as JTAG sequences: one capture of 8
\* bits; 8 bits without capture; a capture of 3 bits and then 2 bits with
\* TMS high and no capture; two sequences announced and one given; a
\* capture of 64 bits; and no sequence.  The empty packet is left out: in
\* Flash and FPGA mode it would program the DMA of SPI::exchange with a
\* count of 0.
SpiPayloads ==
    {<<1, 136, 165>>, <<1, 8, 165>>, <<2, 131, 5, 66, 1>>, <<2, 129, 1>>,
     <<1, 128, 1, 2, 3, 4, 5, 6, 7, 8>>, <<0>>}

\* The host has one exchange under way at a time on the bulk endpoints.
\* CMSIS-DAP is command and response, so no DAP report is under way when
\* the host sends a control request; a SPITransmit packet that the SPI
\* bulk endpoint has taken may still wait there to be processed.
DapIdle == dap_in = None /\ out = None
SpiIdle == spi_in = None /\ spi_out = None
AppSetMode == DapIdle /\ spi_out = None /\ \E m \in Modes : SetMode(m)
AppSuspend == DapIdle /\ spi_out = None /\ Suspend
AppReport == SpiIdle /\ DAP1ReportOf(AppInputs)
SPIReport == DapIdle /\ SPIReportOf(SpiPayloads, {0, 255})
NextApp ==
    \/ AppSetMode
    \/ AppSuspend
    \/ AppReport
    \/ DAP1Command
    \/ DAP1Done
    \/ SPIReport
    \/ SPITransmit
    \/ SPIDone
SpecApp == Init /\ [][NextApp]_vars

(***************************************************************************)
(* The host's SequenceBuilder (software/src/jtag.rs) and the JTAG mode of  *)
(* the firmware.                                                           *)
(***************************************************************************)
\* SequenceBuilder::request.  `tdi` is None or Some(bytes); without TDI data
\* the builder sends bytes of 0xff.
dummy_tdi(nbytes) == [i \in 1..nbytes |-> 255]
request_tdi(len, tdi) == IF tdi = None THEN dummy_tdi(bytes_for_bits(len)) ELSE tdi[1]
\* The three assertions of SequenceBuilder::request.
request_accepts(b, len, tdi) ==
    /\ len <= 64
    /\ Len(request_tdi(len, tdi)) = bytes_for_bits(len)
    /\ 1 + Len(b.request) + 1 + bytes_for_bits(len) <= 64
request_header(len, tms, capture) ==
    (IF len = 64 THEN 0 ELSE len) + (IF tms THEN 64 ELSE 0)
        + (IF capture THEN 128 ELSE 0)
SequenceBuilder_request(b, len, tms, tdi, capture) ==
    [num_sequences |-> b.num_sequences + 1,
     capture_length |-> b.capture_length
                          + (IF capture THEN bytes_for_bits(len) ELSE 0),
     request |-> b.request \o <<request_header(len, tms, capture)>>
                           \o request_tdi(len, tdi),
     sent |-> b.sent]
\* SequenceBuilder::to_bytes
to_bytes(b) == <<b.num_sequences % 256>> \o b.request

\* Sequences the host puts into one request in the model.
MaxSeqs == 2
\* Clock counts the host asks for, and the TDI data it gives for them.
SeqLens == {0, 3, 9, 64}
TdiOf(len) == [i \in 1..bytes_for_bits(len) |-> 85]
\* The levels of TDO: the target repeats the bits of one byte.
TdoBytes == {0, 165, 255}

\* SequenceBuilder::write, ::mode and ::read, and a call of ::request that
\* captures while it sends TDI data with TMS high.
SeqCalls(len) ==
    {[tms |-> FALSE, tdi |-> Some(TdiOf(len)), capture |-> FALSE],
     [tms |-> TRUE, tdi |-> None, capture |-> FALSE],
     [tms |-> FALSE, tdi |-> None, capture |-> TRUE],
     [tms |-> TRUE, tdi |-> Some(TdiOf(len)), capture |-> TRUE]}

\* The host adds one sequence to the builder while no exchange is under way.
BuilderRequest ==
    /\ ~host.sent
    /\ mode = "JTAG"
    /\ SpiIdle
    /\ host.num_sequences < MaxSeqs
    /\ \E len \in SeqLens :
           \E c \in SeqCalls(len) :
               /\ request_accepts(host, len, c.tdi)
               /\ host' = SequenceBuilder_request(host, len, c.tms, c.tdi, c.capture)
    /\ UNCHANGED <<ctlVars, dapVars, panicked, appVars, sysNotHost>>

\* SequenceBuilder::execute up to Programmer::jtag_sequence's write_bulk.
BuilderExecute ==
    /\ ~panicked
    /\ ~host.sent
    /\ mode = "JTAG"
    /\ spi_data_enabled
    /\ spi_in = None
    /\ spi_out = None
    /\ \E ext \in TdoBytes :
           spi_in' = Some([data |-> to_bytes(host), ext |-> ext])
    /\ host' = [host EXCEPT !.sent = TRUE]
    /\ UNCHANGED <<dapVars, mode, spi_data_enabled, dap_enabled, spi_out, app,
                   panicked, ctlVars, sysNotHost>>

\* The host starts a new builder once the exchange is over.
BuilderNew ==
    /\ host.sent
    /\ spi_in = None
    /\ spi_out = None
    /\ host' = SequenceBuilder_new
    /\ UNCHANGED <<ctlVars, dapVars, panicked, appVars, sysNotHost>>

\* Packets sent to the firmware in JTAG mode without the builder: whole
\* requests, requests that end early, a count larger and smaller than the
\* sequences that follow, a header of 0 bits, and no data at all.
JtagPayloads ==
    {<<1, 136, 85>>, <<2, 131, 5, 66, 1>>, <<2, 131, 5, 72>>, <<2, 131, 5>>,
     <<2, 137, 85>>, <<3, 8, 85, 201, 85, 1>>, <<1, 136, 85, 9, 9>>,
     <<1, 0, 1, 2, 3, 4, 5, 6, 7, 8>>, <<1, 128, 1, 2, 3, 4, 5, 6, 7, 8>>,
     <<1, 128, 1, 2, 3>>, <<0, 136, 85>>, <<1>>, <<>>}

JtagSetMode == DapIdle /\ SpiIdle /\ mode # "JTAG" /\ SetMode("JTAG")
JtagReport ==
    /\ mode = "JTAG"
    /\ host = SequenceBuilder_new
    /\ SPIReportOf(JtagPayloads, TdoBytes)
NextJtag ==
    \/ JtagSetMode
    \/ JtagReport
    \/ BuilderRequest
    \/ BuilderExecute
    \/ BuilderNew
    \/ SPITransmit
    \/ SPIDone
SpecJtag == Init /\ [][NextJtag]_vars


(***************************************************************************)
(* Claims about the control endpoint.                                      *)
(***************************************************************************)
\* The requests the control endpoint records in pending_request at SETUP time.
RecordedKinds == {"SetAddress", "SetConfiguration", "Reset", "AppRequest",
                  "AppRequestAndDetach"}
ReturnedRecorded ==
    /\ ctl.ret.req # None
    /\ ctl.ret.req[1].kind \in RecordedKinds
    /\ ctl.ret.req[1].req # "GetTPwr"

\* C1: whenever process_transfer returns a request that was recorded at SETUP
\* time, the call is handling a TX-complete event, and the packet whose
\* transmission completed is the zero-length ACK queued for the SETUP that
\* recorded the request.
C1_ReleasedOnOwnAck ==
    ReturnedRecorded =>
        /\ ctl.ret.ev = "tx"
        /\ ctl.ret.pkt = [sid |-> ctl.ret.req[1].sid, kind |-> "ack"]

\* The packets that carry a payload of `len` bytes: chunks of 64 bytes, the
\* last one shorter, and empty when len is a multiple of 64.
ExpectedPackets(sid, len) ==
    [k \in 1..(len \div PacketSize + 1) |->
        Slice(Payload(sid, len), (k - 1) * PacketSize, Min(k * PacketSize, len))]

IsPrefix(s, u) == Len(s) <= Len(u) /\ s = SubSeq(u, 1, Len(s))

\* Nothing is loaded, nothing awaits its interrupt, and no later SETUP has
\* arrived: the transfer of the current payload has run to its end.
TransferOver ==
    /\ ep0r.ctr_tx = 0
    /\ ep0r.stat_tx # VALID
    /\ ctl.nsetup = ctl.cur.sid

\* C2: a payload of len <= 320 bytes passed to transmit_slice is sent without
\* a panic as the packets of ExpectedPackets, in order: one packet if
\* len < 64, else ceil(len/64) data packets followed by a zero-length packet
\* iff len is a multiple of 64; after the last one pending_tx is None.
C2_PayloadPackets ==
    ctl.cur.sid # 0 =>
        /\ ~panicked
        /\ IsPrefix(ctl.wire, ExpectedPackets(ctl.cur.sid, ctl.cur.len))
        /\ TransferOver =>
             /\ ctl.wire = ExpectedPackets(ctl.cur.sid, ctl.cur.len)
             /\ pending_tx = None


(***************************************************************************)
(* Claims about the command interpreter.  `out` holds the report a call of *)
(* process_command was given, the target's answers, the response, the SWD  *)
(* transactions of the call and the state the call started from.           *)
(***************************************************************************)
\* C3: process_command returns without a panic for every report of 1 to 64
\* bytes.
C3_NoPanic ==
    (out # None /\ Len(out[1].report) \in 1..PacketSize) => ~panicked

\* An SWD transaction the target acknowledged with OK, with good parity if it
\* is a read.
GoodAnswer(e) ==
    /\ e.ack = ACK_OK
    /\ e.phase = "read" => e.parity = count_ones(e.data) % 2

\* The wire entry k is the last attempt of a call of SWD::read or SWD::write:
\* the one that gives the call its result.
LastOfCall(w, k) == k = Len(w) \/ w[k + 1].first

\* The status code of the result of a call that ended with the wire entry e.
StatusOf(e) ==
    CASE GoodAnswer(e) -> 1
      [] e.ack = ACK_WAIT -> 2
      [] e.ack = ACK_FAULT -> 4
      [] OTHER -> 15

\* The index in the response (from 1) of the status byte of a transfer
\* command: after the count byte of DAP_Transfer, after the count word of
\* DAP_TransferBlock.
StatusIndex(report) == IF report[1] = 5 THEN 3 ELSE 4

IsTransfer == out # None /\ Len(out[1].report) > 0 /\ out[1].report[1] = 5
IsBlock == out # None /\ Len(out[1].report) > 0 /\ out[1].report[1] = 6

\* The final status of a call: the code of the result of its last SWD
\* transaction, 0 if it made none.
FinalStatus ==
    IF out[1].wire = <<>> THEN 0 ELSE StatusOf(out[1].wire[Len(out[1].wire)])

\* C4: the response to a DAP_Transfer request is, after the echoed command
\* byte, 2 + 4 * (number of successful reads) bytes long; its first byte is
\* the number of transfers executed and its second byte the final status.  A
\* successful read is a read transfer that ended OK and whose value is
\* returned.
C4_TransferResponse ==
    (IsTransfer /\ out[1].some) =>
        /\ Len(out[1].resp) - 1 = 2 + 4 * out[1].reads
        /\ out[1].resp[2] = out[1].exec
        /\ out[1].resp[3] = FinalStatus

\* C5: in DAP_Transfer and DAP_TransferBlock no SWD transaction follows the
\* first call of SWD::read or SWD::write whose result is not OK, and the
\* status byte of the response is the code of the result of the last call: 1
\* for OK, 2 for WAIT, 4 for FAULT, 0x0F for any other error.
C5_FirstErrorEndsLoop ==
    (IsTransfer \/ IsBlock) =>
        /\ \A k \in 1..Len(out[1].wire) :
              (LastOfCall(out[1].wire, k) /\ ~GoodAnswer(out[1].wire[k]))
                  => k = Len(out[1].wire)
        /\ (out[1].some /\ out[1].wire # <<>>) =>
              out[1].resp[StatusIndex(out[1].report)] = FinalStatus

\* C5 is witnessed by a request of two transfers whose first one ends in
\* FAULT: one transaction on the wire, status 4.
C5_Witness ==
    /\ IsTransfer
    /\ out[1].report = TransferReport(<<ElemReadDP, ElemWriteAP>>)
    /\ out[1].script = <<AnsFault>>
    /\ Len(out[1].wire) = 1
    /\ out[1].resp = <<5, 1, 4>>

\* The DAP_Transfer requests with one value-match read of DP register 1,
\* which is either the first transfer or follows a transfer that sets the
\* match mask, and with no second value-match read.
MatchReports ==
    {TransferReport(<<ElemMatch>> \o rest) :
        rest \in {<<>>, <<ElemReadDP>>, <<ElemReadAP>>, <<ElemWriteAP>>,
                  <<ElemMask>>}}
    \cup {TransferReport(<<ElemMask, ElemMatch>>)}

\* A call of such a request to which the target answers every transaction
\* with OK and good parity.
MatchCase ==
    /\ out # None
    /\ out[1].report \in MatchReports
    /\ \A i \in 1..Len(out[1].script) :
          /\ out[1].script[i].ack = ACK_OK
          /\ out[1].script[i].parity = count_ones(out[1].script[i].data) % 2

\* The match mask in force at the value-match read, the position of that
\* read in the request, the number of transfers of the request, and the
\* request byte of the reads of its register.
MatchMask ==
    IF out[1].report = TransferReport(<<ElemMask, ElemMatch>>)
    THEN u32_from_le_bytes(SubSeq(ElemMask, 2, 5))
    ELSE <<65535, 65535>>
MatchPos ==
    IF out[1].report = TransferReport(<<ElemMask, ElemMatch>>) THEN 2 ELSE 1
MatchTransfers == out[1].report[3]
MatchRequest == make_request(0, 1, 1)

\* The target's answer to the k-th transaction of the call, and whether it
\* matches; the reads the value-match read may make.
AnswerAt(k) == out[1].script[Min(k, Len(out[1].script))]
Matching(k) ==
    And32(AnswerAt(k).data, MatchMask) = u32_from_le_bytes(SubSeq(ElemMatch, 2, 5))
MatchTries == 1..(1 + out[1].pre.match_retries)
MatchReads ==
    Cardinality({k \in 1..Len(out[1].wire) : out[1].wire[k].req = MatchRequest})

\* C6: when a value-match read of DAP_Transfer does not match after its
\* retries, bit 4 is set in the status byte of the response, which also
\* carries the ACK code, and no further transfer of the request is executed.
C6_MismatchInStatusByte ==
    (MatchCase /\ \A k \in MatchTries : ~Matching(k)) =>
        /\ out[1].some
        /\ BitAnd(out[1].resp[3], 16) = 16
        /\ BitAnd(out[1].resp[3], 15) = 1
        /\ out[1].exec = MatchPos
        /\ Len(out[1].wire) = 1 + out[1].pre.match_retries

\* C7: a value-match read reads its register until the masked value matches
\* or match_retries re-reads were made: 1 + match_retries reads if no value
\* matches, and if the k-th is the first that matches, k reads, after which
\* the loop goes on through the transfers that remain.  match_retries is the
\* value the last DAP_TransferConfigure gave.
C7_ValueMatchRetries ==
    /\ MatchCase =>
          IF \E k \in MatchTries : Matching(k)
          THEN /\ \E k \in MatchTries :
                     /\ Matching(k)
                     /\ \A j \in 1..(k - 1) : ~Matching(j)
                     /\ MatchReads = k
               /\ out[1].some
               /\ out[1].exec = MatchTransfers
               /\ out[1].resp[2] = MatchTransfers
          ELSE MatchReads = 1 + out[1].pre.match_retries
    /\ (out # None /\ ~panicked) =>
          IF Len(out[1].report) > 0 /\ out[1].report[1] = 4
          THEN match_retries = u16_from_le_bytes(SubSeq(out[1].report, 5, 6))
          ELSE match_retries = out[1].pre.match_retries

\* C7 is witnessed by match_retries = 3 and a target that never matches: 4
\* reads of the register.
C7_Witness ==
    /\ MatchCase
    /\ out[1].pre.match_retries = 3
    /\ out[1].report = TransferReport(<<ElemMatch>>)
    /\ out[1].script = <<AnsOther>>
    /\ Len(out[1].wire) = 4
    /\ MatchReads = 4

\* The request of C8, answered with OK and good parity throughout.
PostedCase ==
    /\ out # None
    /\ out[1].report = TransferReport(<<ElemReadAP, ElemReadDP>>)
    /\ \A i \in 1..Len(out[1].script) :
          /\ out[1].script[i].ack = ACK_OK
          /\ out[1].script[i].parity = count_ones(out[1].script[i].data) % 2

\* The request bytes of the transactions on the wire.
WireRequests == [k \in 1..Len(out[1].wire) |-> out[1].wire[k].req]

\* C8 as stated: for DAP_Transfer [read AP register 0; read DP RDBUFF] the
\* device issues the AP read, then one read of DP RDBUFF, and replies with 2
\* transfers executed, status OK and exactly one 32-bit value.
C8_OneValue ==
    PostedCase =>
        /\ WireRequests = <<make_request(1, 1, 0), make_request(0, 1, RDBUFF)>>
        /\ out[1].resp = <<5, 2, 1>> \o u32_to_le_bytes(AnswerAt(2).data)

\* C8, amended: the device issues the AP read, whose value it discards, and
\* reads DP RDBUFF for the value of the first transfer; it then reads DP
\* RDBUFF again for the second transfer, and replies with 2 transfers
\* executed, status OK and two 32-bit values, one for each transfer.
C8_TwoValues ==
    PostedCase =>
        /\ WireRequests = <<make_request(1, 1, 0), make_request(0, 1, RDBUFF),
                            make_request(0, 1, RDBUFF)>>
        /\ out[1].resp = <<5, 2, 1>> \o u32_to_le_bytes(AnswerAt(2).data)
                                     \o u32_to_le_bytes(AnswerAt(3).data)

C8_Witness ==
    /\ PostedCase
    /\ out[1].script = <<AnsHigh, AnsOther>>
    /\ out[1].some
    /\ Len(out[1].resp) = 11

\* The command bytes process_command has a handler for.
Implemented ==
    {0, 1, 2, 3, 8, 9, 10, 16, 17, 18, 19, 23, 24, 25, 26, 27, 30, 28,
     4, 5, 6, 7}

\* C9: a report whose command byte is not one the interpreter implements,
\* whether or not it is a byte of the Command enum, is answered with the
\* single byte 0xFF.
C9_UnimplementedReply ==
    (/\ out # None
     /\ Len(out[1].report) > 0
     /\ out[1].report[1] \notin Implemented) =>
        /\ out[1].some
        /\ out[1].resp = <<255>>

IsCommand(c) == out # None /\ Len(out[1].report) > 0 /\ out[1].report[1] = c

\* C10: the connected flag is set by a DAP_Connect with port 0 or 1, which
\* replies 1, cleared by a DAP_Disconnect and left alone by every other
\* command; DAP_WriteABORT puts a transaction on the wire only if the flag was
\* set, and replies ERROR without one if it was not; a DAP_Connect with
\* another port replies 0 and leaves the pins, the SPI and the flag as they
\* were.
C10_WriteAbortWhenConnected ==
    (out # None /\ ~panicked) =>
        /\ (IsCommand(2) /\ out[1].report[2] \in {0, 1}) =>
              (configured /\ out[1].resp = <<2, 1>>)
        /\ (IsCommand(2) /\ out[1].report[2] \notin {0, 1}) =>
              /\ out[1].resp = <<2, 0>>
              /\ pins = out[1].pre.pins
              /\ spi_enabled = out[1].pre.spi_enabled
              /\ configured = out[1].pre.configured
        /\ IsCommand(3) => ~configured
        /\ ~(IsCommand(2) \/ IsCommand(3)) =>
              configured = out[1].pre.configured
        /\ (IsCommand(8) /\ ~out[1].pre.configured) =>
              (out[1].resp = <<8, DAP_ERROR>> /\ out[1].wire = <<>>)
        /\ (IsCommand(8) /\ out[1].wire # <<>>) => out[1].pre.configured

\* C10 is witnessed by a DAP_WriteABORT that writes the ABORT register of a
\* connected probe.
C10_Witness ==
    /\ IsCommand(8)
    /\ out[1].pre.configured
    /\ Len(out[1].wire) = 1
    /\ out[1].wire[1].phase = "write"
    /\ out[1].resp = <<8, DAP_OK>>

\* The number of the attempt of its call that the wire entry k is.
RECURSIVE AttemptNo(_, _)
AttemptNo(w, k) == IF w[k].first THEN 1 ELSE 1 + AttemptNo(w, k - 1)

IsReadRequest(e) == BitAnd(e.req, 4) # 0

\* C12: the SWD read that ended a transfer command returned Ok(data) exactly
\* when the acknowledgement was OK and the parity bit received was
\* popcount(data) & 1; with an OK acknowledgement and another parity bit it
\* returned BadParity.
C12_ReadParity ==
    ((IsTransfer \/ IsBlock) /\ out[1].wire # <<>>
        /\ IsReadRequest(out[1].wire[Len(out[1].wire)])) =>
        LET e == out[1].wire[Len(out[1].wire)]
            good == /\ e.ack = ACK_OK
                    /\ e.parity = (PopCount(e.data[1]) + PopCount(e.data[2])) % 2
        IN  /\ out[1].res.ok <=> good
            /\ out[1].res.ok => out[1].res.value = e.data
            /\ (e.ack = ACK_OK /\ ~good) => out[1].res.err = "BadParity"

\* C12 is witnessed by a read the target acknowledges with OK and a wrong
\* parity bit: the read returns BadParity and the status is 0x0F.
C12_Witness ==
    /\ IsTransfer
    /\ out[1].report = TransferReport(<<ElemReadDP>>)
    /\ out[1].script = <<AnsBadParity>>
    /\ out[1].res.err = "BadParity"
    /\ out[1].resp = <<5, 1, 15>>

\* Bit i of a byte.
Bit(b, i) == (b \div (2 ^ i)) % 2

\* C13: every SWD request byte has start bit 1, stop bit 0 and park bit 1 and
\* an even number of ones among bits 1 to 5, and the request of a transfer
\* carries APnDP, RnW and the register address of the transfer request in
\* bits 1 to 4.
C13_RequestByte ==
    (IsTransfer /\ out[1].wire # <<>>) =>
        /\ \A k \in 1..Len(out[1].wire) :
              LET req == out[1].wire[k].req
              IN  /\ req \in 0..255
                  /\ Bit(req, 0) = 1
                  /\ Bit(req, 6) = 0
                  /\ Bit(req, 7) = 1
                  /\ (Bit(req, 1) + Bit(req, 2) + Bit(req, 3) + Bit(req, 4)
                        + Bit(req, 5)) % 2 = 0
        /\ LET req == out[1].wire[1].req
               transfer_req == out[1].report[4]
           IN  /\ Bit(req, 1) = Bit(transfer_req, 0)
               /\ Bit(req, 2) = Bit(transfer_req, 1)
               /\ Bit(req, 3) = Bit(transfer_req, 2)
               /\ Bit(req, 4) = Bit(transfer_req, 3)

\* C13 is witnessed by a read of DP register 0, whose request byte 0xA5 has
\* its parity bit set.
C13_Witness ==
    /\ IsTransfer
    /\ out[1].report = ReqReport(2)
    /\ out[1].wire # <<>>
    /\ out[1].wire[1].req = 165

(***************************************************************************)
(* The pin-role table: for each of the five transitions, the direction of  *)
(* each pin and, where the table gives one, its output type ("any" where   *)
(* it gives none).                                                         *)
(***************************************************************************)
TablePins == {"sck", "flash_si", "flash_so", "cs", "fpga_so", "fpga_si", "fpga_rst"}
Transitions ==
    {"high_impedance_mode", "flash_mode", "fpga_mode", "swd_mode", "jtag_mode"}
Role(dir, otype) == [mode |-> dir, otype |-> otype]
TableRow(t) ==
    CASE t = "high_impedance_mode" ->
             [sck |-> Role("input", "any"), flash_si |-> Role("input", "any"),
              flash_so |-> Role("input", "any"), cs |-> Role("input", "any"),
              fpga_so |-> Role("input", "any"), fpga_si |-> Role("input", "any"),
              fpga_rst |-> Role("output", "opendrain")]
      [] t = "flash_mode" ->
             [sck |-> Role("alternate", "any"), flash_si |-> Role("alternate", "any"),
              flash_so |-> Role("alternate", "pushpull"),
              cs |-> Role("output", "opendrain"),
              fpga_so |-> Role("input", "any"), fpga_si |-> Role("input", "any"),
              fpga_rst |-> Role("output", "opendrain")]
      [] t = "fpga_mode" ->
             [sck |-> Role("alternate", "any"), flash_si |-> Role("input", "any"),
              flash_so |-> Role("input", "any"),
              cs |-> Role("output", "opendrain"),
              fpga_so |-> Role("alternate", "any"),
              fpga_si |-> Role("alternate", "any"),
              fpga_rst |-> Role("output", "opendrain")]
      [] t = "swd_mode" ->
             [sck |-> Role("alternate", "any"), flash_si |-> Role("alternate", "any"),
              flash_so |-> Role("output", "opendrain"),
              cs |-> Role("alternate", "any"),
              fpga_so |-> Role("alternate", "any"), fpga_si |-> Role("input", "any"),
              fpga_rst |-> Role("input", "any")]
      [] t = "jtag_mode" ->
             [sck |-> Role("output", "any"), flash_si |-> Role("output", "any"),
              flash_so |-> Role("output", "opendrain"), cs |-> Role("input", "any"),
              fpga_so |-> Role("input", "any"), fpga_si |-> Role("input", "any"),
              fpga_rst |-> Role("output", "pushpull")]
RowHolds(p, t) ==
    \A n \in TablePins :
        /\ p[n].mode = TableRow(t)[n].mode
        /\ TableRow(t)[n].otype # "any" => p[n].otype = TableRow(t)[n].otype
\* The table gives sck a pull-up in the SWD row and in no other.
RowPull(t) == IF t = "swd_mode" THEN "up" ELSE "floating"

\* C14: after any sequence of the five mode transitions from Pins::setup,
\* the direction, the output type and the pull-up of sck are those of the
\* table row of the transition made last, whatever came before.
C14_TableRowOfLast ==
    app.last \in Transitions =>
        RowHolds(pins, app.last) /\ pins.sck.pull = RowPull(app.last)

\* The same without the pull-up of sck: directions and output types alone.
C14_DirectionsOfLast ==
    app.last \in Transitions => RowHolds(pins, app.last)

\* flash_so, the nRESET of SWD and JTAG, pulls the line low: it is an
\* output and its output latch is 0.
DrivesResetLow(p) == p.flash_so.mode = "output" /\ p.flash_so.odr = 0

\* C15: the output level of flash_so is high again after every
\* high_impedance_mode, so nRESET is driven low only if the host has
\* asserted reset through DAP_SWJ_Pins since the last high_impedance_mode.
C15_ResetLowOnlyIfAsserted ==
    DrivesResetLow(pins) => app.asserted

\* The level of flash_so after startup and after high_impedance_mode.
C15_HighAfterDetach ==
    app.last \in {"setup", "high_impedance_mode"} => pins.flash_so.odr = 1

\* What a pin does on its line: its direction, its output type and, when it
\* is an output, the level it drives.
PinView(q) ==
    [mode |-> q.mode, otype |-> q.otype,
     level |-> IF q.mode = "output" THEN q.odr ELSE 2]
PinsView(p) == [n \in DOMAIN p |-> PinView(p[n])]

\* C16: when a DAP_Connect to the SWD port follows a DAP_Disconnect that
\* was processed while connected with the pins in SWD mode, every pin has the direction, the output
\* type and the driven level it had just before the DAP_Disconnect.
C16_ConnectRestoresPins ==
    app.restored # None => PinsView(pins) = PinsView(app.restored[1])

\* The same for the pins other than flash_so.
C16_OtherPinsRestored ==
    app.restored # None =>
        \A n \in DOMAIN pins \ {"flash_so"} :
            PinView(pins[n]) = PinView(app.restored[1][n])

\* C17: the DAP is never connected (DAP.configured) while the coordinator
\* is in Flash or FPGA mode.
C17_OneOwner ==
    ~(configured /\ mode \in {"Flash", "FPGA"})

\* What follows from it: back in High-Z mode the DAP still counts as
\* connected and runs a command on the SWD path although the SPI is
\* disabled and the pins are not in SWD mode.
C17_TransferOnlyInSwdMode ==
    (out # None /\ Len(out[1].wire) > 0) =>
        out[1].pre.spi_enabled /\ RowHolds(out[1].pre.pins, "swd_mode")

\* C18: once the first pin transition has been made, the pins are in the
\* table row of App.mode, or in the SWD row while the DAP is connected.
C18_PinsOfMode ==
    app.last # "setup" =>
        \/ RowHolds(pins, ModeTransition(mode))
        \/ configured /\ RowHolds(pins, "swd_mode")

\* Its consequence for SPITransmit: one dispatched on Flash, FPGA or JTAG
\* mode has run with the pins in the row of that mode.
C18_TransmitOnPinsOfMode ==
    (spi_out # None /\ spi_out[1].mode # "HighImpedance") =>
        RowHolds(pins, ModeTransition(spi_out[1].mode))

\* A step that processes a SetMode request.
SetModeStep == \E m \in Modes : SetMode(m)

\* C19: after every SetMode the SPI bulk endpoint takes OUT packets exactly
\* when the new mode is Flash, FPGA or JTAG, and the DAP endpoints take
\* them exactly when the new mode is High-Z.
C19_EndpointsAfterSetMode ==
    [][SetModeStep =>
          /\ spi_data_enabled' <=> mode' \in {"Flash", "FPGA", "JTAG"}
          /\ dap_enabled' <=> mode' = "HighImpedance"]_vars

\* C19 as stated: the SPI bulk endpoint takes OUT packets exactly when the
\* new mode is Flash or FPGA.
C19_SpiOnlyFlashFpga ==
    [][SetModeStep =>
          /\ spi_data_enabled' <=> mode' \in {"Flash", "FPGA"}
          /\ dap_enabled' <=> mode' = "HighImpedance"]_vars

\* SetMode(JTAG) has just been processed.
C19_Witness ==
    /\ mode = "JTAG"
    /\ app.last = "jtag_mode"
    /\ spi_data_enabled
    /\ ~dap_enabled
    /\ spi_in = None

\* The number of bytes that captures of the given numbers of bits fill.
RECURSIVE CaptureBytes(_)
CaptureBytes(captures) ==
    IF captures = <<>> THEN 0
    ELSE (Head(captures) + 7) \div 8 + CaptureBytes(Tail(captures))

\* What C20 says of one SPITransmit `o` of n bytes.
TransmitAnswered(o, n) ==
    CASE o.mode \in {"Flash", "FPGA"} ->
             /\ o.exchanged = n /\ o.clocks = 0
             /\ o.replied /\ Len(o.reply) = n
      [] o.mode = "JTAG" ->
             /\ o.exchanged = 0
             /\ o.replied /\ Len(o.reply) = CaptureBytes(o.captures)
             /\ Len(o.reply) <= n
      [] OTHER ->
             /\ o.exchanged = 0 /\ o.clocks = 0
             /\ ~o.replied

\* C20: a SPITransmit of n bytes is answered by one SPI exchange and a reply
\* of n bytes in Flash or FPGA mode, by JTAG sequences and a reply of the
\* captured bytes, at most n, in JTAG mode, and by nothing in High-Z mode.
C20_TransmitReply ==
    spi_out # None => TransmitAnswered(spi_out[1], Len(spi_out[1].data))

\* The same for the requests whose reply is not empty.
C20_ReplyUnlessEmpty ==
    (spi_out # None /\ ~spi_out[1].pan) =>
        TransmitAnswered(spi_out[1], Len(spi_out[1].data))

\* The replies that fail are those of JTAG requests without a capture.
C20_PanicOnlyWithoutCapture ==
    (spi_out # None /\ spi_out[1].pan) =>
        spi_out[1].mode = "JTAG" /\ spi_out[1].captures = <<>>

(***************************************************************************)
(* C21: the format JTAG::sequences reads.                                  *)
(***************************************************************************)
\* The sequences of a request as the format describes them: a count, then
\* for each sequence a header byte and ceil(n/8) TDI bytes, up to the first
\* sequence that the data does not hold in full.
RECURSIVE FormatSeqs(_, _)
FormatSeqs(count, rest) ==
    IF count = 0 \/ rest = <<>> THEN <<>>
    ELSE LET n == IF rest[1] % 64 = 0 THEN 64 ELSE rest[1] % 64
             nbytes == (n + 7) \div 8
         IN  IF Len(rest) < 1 + nbytes THEN <<>>
             ELSE <<[n |-> n, nbytes |-> nbytes, tms |-> (rest[1] \div 64) % 2,
                     capture |-> rest[1] \div 128 = 1,
                     tdi |-> SubSeq(rest, 2, nbytes + 1)]>>
                  \o FormatSeqs(count - 1, SubSeq(rest, nbytes + 2, Len(rest)))
FormatOf(data) == IF data = <<>> THEN <<>> ELSE FormatSeqs(data[1], Tail(data))
RECURSIVE SumClocks(_)
SumClocks(ps) == IF ps = <<>> THEN 0 ELSE ps[1].n + SumClocks(Tail(ps))
RECURSIVE SumCaptured(_)
SumCaptured(ps) ==
    IF ps = <<>> THEN 0
    ELSE (IF ps[1].capture THEN ps[1].nbytes ELSE 0) + SumCaptured(Tail(ps))
\* The places in a run of pin events where TMS was set: one per sequence.
TmsAt(ev) == {x \in 1..Len(ev) : ev[x].e = "tms"}
SeqStart(ev, k) ==
    IF k > Cardinality(TmsAt(ev)) THEN Len(ev) + 1
    ELSE CHOOSE x \in TmsAt(ev) : Cardinality({y \in TmsAt(ev) : y < x}) = k - 1
\* The TCK pulses of the k-th sequence.
PulsesOf(ev, k) ==
    Cardinality({x \in SeqStart(ev, k)..(SeqStart(ev, k + 1) - 1) :
                     ev[x] = Ev("tck", 1)})
JtagDone == spi_out # None /\ spi_out[1].mode = "JTAG"

\* C21: JTAG::sequences reads a count and then, for each sequence, a header
\* byte and ceil(n/8) TDI bytes (n = header bits 5..0, 0 meaning 64; bit 6
\* the TMS level; bit 7 capture).  It clocks n TCK pulses for each sequence
\* and returns the sum of ceil(n/8) over the capture sequences; a sequence
\* whose header or TDI bytes the input does not hold is not clocked, nor
\* is any sequence after it.
C21_SequencesFormat ==
    JtagDone =>
        \E ps \in {FormatOf(spi_out[1].data)} :
            /\ Cardinality(TmsAt(spi_out[1].events)) = Len(ps)
            /\ \A k \in 1..Len(ps) :
                   /\ spi_out[1].events[SeqStart(spi_out[1].events, k)]
                          = Ev("tms", ps[k].tms)
                   /\ PulsesOf(spi_out[1].events, k) = ps[k].n
            /\ spi_out[1].clocks = SumClocks(ps)
            /\ Len(spi_out[1].rx) = SumCaptured(ps)
            /\ Len(ps) = 0 => spi_out[1].events = <<>>
\* A request of two sequences whose second header has no TDI byte after it:
\* the first sequence is clocked and captured, the second is not.
C21_Witness ==
    /\ JtagDone
    /\ spi_out[1].data = <<2, 131, 5, 72>>
    /\ spi_out[1].clocks = 3
    /\ Len(spi_out[1].rx) = 1
    /\ Cardinality(TmsAt(spi_out[1].events)) = 1

(***************************************************************************)
(* C22: the order of the pin operations within a capturing sequence.       *)
(***************************************************************************)
BitOf(bytes, i) == (bytes[i \div 8 + 1] \div (2 ^ (i % 8))) % 2
\* The sequences before the k-th one.
Before(ps, k) == SubSeq(ps, 1, k - 1)
\* The pin events of bit i of a capturing sequence that starts at event s0.
CaptureBitOrder(ev, s0, i, tdi) ==
    /\ ev[s0 + 4 * i + 1] = Ev("tdi", BitOf(tdi, i))
    /\ ev[s0 + 4 * i + 2] = Ev("tdo", i)
    /\ ev[s0 + 4 * i + 3] = Ev("tck", 1)
    /\ ev[s0 + 4 * i + 4] = Ev("tck", 0)
\* The bytes captured by a sequence of n bits that starts after `clocks`
\* pulses hold, LSbit first, the level TDO had before each pulse.
CapturedLevels(rx, ext, clocks, n) ==
    \A i \in 0..(8 * Len(rx) - 1) :
        BitOf(rx, i) = IF i < n THEN tdo_level(ext, clocks + i) ELSE 0

\* C22: in a capturing JTAG sequence TMS is set once, before the first
\* clock; then for each bit i TDI is driven with bit i of the TDI data,
\* TDO is sampled into bit i of the output, and only then TCK is pulsed
\* high and low.  The request [1, 0x88, 0x55] is answered by one byte, the
\* TDO levels of the 8 clocks, LSbit first.
C22_CaptureOrder ==
    JtagDone =>
        \E ps \in {FormatOf(spi_out[1].data)}, ev \in {spi_out[1].events} :
            /\ \A k \in 1..Len(ps) :
                   ps[k].capture =>
                       \E s0 \in {SeqStart(ev, k)} :
                           /\ ev[s0] = Ev("tms", ps[k].tms)
                           /\ SeqStart(ev, k + 1) = s0 + 4 * ps[k].n + 1
                           /\ \A i \in 0..(ps[k].n - 1) :
                                  CaptureBitOrder(ev, s0, i, ps[k].tdi)
                           /\ CapturedLevels(
                                  SubSeq(spi_out[1].rx,
                                         SumCaptured(Before(ps, k)) + 1,
                                         SumCaptured(Before(ps, k)) + ps[k].nbytes),
                                  spi_out[1].ext, SumClocks(Before(ps, k)), ps[k].n)
            /\ spi_out[1].data = <<1, 136, 85>> =>
                   /\ spi_out[1].replied
                   /\ spi_out[1].reply = <<spi_out[1].ext>>
\* The request [1, 0x88, 0x55] while TDO gives 1,0,1,0,0,1,0,1 over the 8
\* clocks: the reply is the byte 0xA5.
C22_Witness ==
    /\ JtagDone
    /\ spi_out[1].data = <<1, 136, 85>>
    /\ spi_out[1].ext = 165
    /\ spi_out[1].reply = <<165>>
    /\ Len(spi_out[1].events) = 33

(***************************************************************************)
(* C23: the bit counts of DAP_SWJ_Sequence.                                *)
(***************************************************************************)
SwjDone == out # None /\ Len(out[1].report) >= 2 /\ out[1].report[1] = 18
\* The bits the command is to transmit for the bit count n of its request.
SwjBits(n) == IF n = 0 THEN 256 ELSE IF n = 51 THEN 56 ELSE n
SwjAccepted(n) == n = 0 \/ n = 51 \/ n % 8 = 0
\* The report holds the bytes of the sequence it announces.
SwjComplete(report) ==
    SwjAccepted(report[2]) => Len(report) - 2 >= SwjBits(report[2]) \div 8
\* The bits sent on the wire by the command.
RECURSIVE WireBits(_)
WireBits(wire) ==
    IF wire = <<>> THEN 0 ELSE 8 * Len(wire[1].data) + WireBits(Tail(wire))

\* C23: DAP_SWJ_Sequence with bit count n, in a report that holds the bytes
\* of its sequence, transmits exactly 256 bits when n = 0, exactly 56 bits
\* when n = 51 and exactly n bits when n is another multiple of 8, the
\* first bytes of its data; for every other n it replies ERROR and
\* transmits nothing.
C23_SwjSequenceBits ==
    (SwjDone /\ SwjComplete(out[1].report)) =>
        IF SwjAccepted(out[1].report[2])
        THEN /\ out[1].resp = <<18, DAP_OK>>
             /\ WireBits(out[1].wire) = SwjBits(out[1].report[2])
             /\ Len(out[1].wire) = 1
             /\ out[1].wire[1].phase = "sequence"
             /\ out[1].wire[1].data
                    = SubSeq(out[1].report, 3, 2 + SwjBits(out[1].report[2]) \div 8)
        ELSE /\ out[1].resp = <<18, DAP_ERROR>>
             /\ out[1].wire = <<>>
\* The line reset of pyOCD: 51 bits asked for, 56 bits sent.
C23_Witness ==
    /\ SwjDone
    /\ out[1].report[2] = 51
    /\ Len(out[1].report) = 34
    /\ WireBits(out[1].wire) = 56
    /\ out[1].resp = <<18, DAP_OK>>

(***************************************************************************)
(* C24: when SWO data is pushed to the streaming endpoint.                 *)
(***************************************************************************)
\* A step that loads a packet into the SWO endpoint.
SwoPushed == swo_tx' # swo_tx /\ swo_tx' # None
\* A step in which the command interpreter processes the report r.
Processes(r) == dap_in # None /\ dap_in' = None /\ dap_in[1].report = r

\* C24: SWO data is pushed to the streaming endpoint only in a poll in which
\* no USB interrupt is pending, the SWO transport is the USB endpoint, the
\* UART capture is active and the endpoint is not busy; a push is one chunk
\* of at most 64 bytes.  DAP_SWO_Control(stop) ends the capture and a
\* DAP_SWO_Transport other than USBEndpoint ends the streaming, and only
\* DAP_SWO_Control(start) and DAP_SWO_Transport(USBEndpoint) begin them
\* again, so no chunk is pushed after a stop or another transport.
C24_SwoPushOnlyWhenStreaming ==
    [][ /\ SwoPushed =>
            /\ ~usb_pending
            /\ swo_streaming
            /\ uart_active
            /\ ~tx_busy
            /\ Len(swo_tx'[1]) \in 1..64
        /\ Processes(<<26, 0>>) => ~uart_active'
        /\ (Processes(<<23, 0>>) \/ Processes(<<23, 1>>)) => ~swo_streaming'
        /\ (uart_active' /\ ~uart_active) => Processes(<<26, 1>>)
        /\ (swo_streaming' /\ ~swo_streaming) => Processes(<<23, 2>>)
      ]_vars
\* A chunk of 64 bytes has been pushed and the ring holds more, which waits
\* for the endpoint.
C24_Witness ==
    /\ swo_tx # None
    /\ Len(swo_tx[1]) = 64
    /\ tx_busy
    /\ uart_ring > 0
    /\ swo_streaming
    /\ uart_active

(***************************************************************************)
(* C25: the order of the Bootload request.                                 *)
(***************************************************************************)
\* What a boot that ends with the Bootload request does, in order.
BootloadOrder == <<"return", "detach", "bootload", "latch", "reset_request">>

\* C25: on vendor request 7 the zero-length ACK is queued, its TX-complete
\* event fires, the D+ pull-up is detached, and then the Bootload request
\* is handed to the application, which writes 0xB00110AD to the latch and
\* asks for a system reset; while the application runs, and until the ACK
\* of the Bootload request has been transmitted, the latch is not written
\* and the device stays attached.
C25_BootloadAfterOwnAck ==
    /\ (BootloadDue \/ stage = "resetting") =>
           /\ ctl.ret.ev = "tx"
           /\ ctl.ret.pkt = [sid |-> ctl.ret.req[1].sid, kind |-> "ack"]
    /\ stage = "resetting" =>
           /\ boot_log = BootloadOrder
           /\ latch = bootload_word
           /\ ~dppu
    /\ stage = "app" => dppu /\ latch # bootload_word
\* The same order, but after the TX-complete of any packet.
C25_BootloadAfterTxComplete ==
    /\ (BootloadDue \/ stage = "resetting") => ctl.ret.ev = "tx"
    /\ stage = "resetting" =>
           /\ boot_log = BootloadOrder
           /\ latch = bootload_word
           /\ ~dppu
    /\ stage = "app" => dppu /\ latch # bootload_word
\* The Bootload request released by the TX-complete of its own ACK.
C25_OwnAckReachable ==
    ~(/\ stage = "resetting"
      /\ ctl.ret.pkt = [sid |-> ctl.ret.req[1].sid, kind |-> "ack"])

(***************************************************************************)
(* C26: bootload::check at boot.                                           *)
(***************************************************************************)
\* C26: at boot, bootload::check jumps to the ROM bootloader if and only if
\* the latch equals 0xB00110AD, and it clears the latch before it jumps, so
\* that the boot after the ROM bootloader is a normal boot; with any other
\* latch value the boot is a normal boot and the latch is left as it was.
C26_CheckJumpsIffLatched ==
    [][ /\ (stage = "pre_init" /\ stage' # "pre_init") =>
               IF latch = <<4269, 45057>>
               THEN /\ stage' = "rom"
                    /\ latch' = <<0, 0>>
                    /\ boot_log' = <<"clear", "remap", "jump">>
               ELSE /\ stage' = "app"
                    /\ latch' = latch
        /\ (stage = "rom" /\ stage' = "pre_init") => latch' # <<4269, 45057>>
      ]_vars
\* The ROM bootloader runs after a boot that found the latch set, and the
\* latch is clear.
C26_Witness ==
    /\ stage = "rom"
    /\ latch = <<0, 0>>
    /\ boot_log = <<"clear", "remap", "jump">>

(***************************************************************************)
(* C27: the option-byte fixer runs once.                                   *)
(***************************************************************************)
\* C27: once set_option_byte has run (the user option byte programmed to
\* 0x7F, the readout-protection byte to 0xAA, the option bytes loaded by
\* the reset it causes), Flash::setup of every later boot finds the user
\* byte it expects and does not unlock, erase or program the option bytes
\* again.
C27_FixerIdempotent ==
    /\ fix_count <= 1
    /\ fix_count = 1 =>
           /\ opt_user = 127
           /\ opt_rdp = 170
           /\ stage \in {"setup", "app"} => read_option_byte(obr) = 127
           /\ stage = "app" => flash_log = <<>>
\* A boot after the fixer has run: Flash::setup did no flash operation.
C27_Witness ==
    /\ fix_count = 1
    /\ stage = "app"
    /\ flash_log = <<>>
    /\ read_option_byte(obr) = 127

(***************************************************************************)
(* C28: control requests that are not supported.                           *)
(***************************************************************************)
\* The interrupt of the SETUP packet in the endpoint has been served, and
\* nothing has happened on EP0 since.
SetupProcessed ==
    /\ ctl.sid > 0
    /\ ctl.sid = epbuf_rx.sid
    /\ ctl.ret.ev = "rx"
    /\ ep0r.setup = 1
    /\ ep0r.ctr_rx = 0
    /\ ep0r.ctr_tx = 0
\* The requests the specification lists: the standard requests GetStatus,
\* SetAddress, GetDescriptor and SetConfiguration, the descriptor types
\* Device, Configuration, String and HID report, the string indices 0 to 5
\* and 0xEE, the vendor requests 1 to 7 and 'A', pin states 0 and 1 and
\* modes 0 to 3.
Unsupported(setup) ==
    CASE (setup.bmRequestType \div 32) % 4 = 0 ->
            \/ setup.bRequest \notin {0, 5, 6, 9}
            \/ /\ setup.bRequest = 6
               /\ \/ setup.wValue \div 256 \notin {1, 2, 3, 34}
                  \/ /\ setup.wValue \div 256 = 3
                     /\ setup.wValue % 256 \notin (0..5) \cup {238}
      [] (setup.bmRequestType \div 32) % 4 = 2 ->
            \/ setup.bRequest \notin (1..7) \cup {65}
            \/ setup.bRequest \in {1, 2, 4, 6} /\ setup.wValue \notin 0..1
            \/ setup.bRequest = 3 /\ setup.wValue \notin 0..3
      [] OTHER -> TRUE
\* The request in the endpoint has put no packet on EP0 and has recorded
\* nothing.
NothingQueued ==
    /\ ctl.loaded.sid # ctl.sid
    /\ ep0r.stat_tx # VALID
    /\ ctl.ret.req = None
    /\ pending_request # None => pending_request[1].sid # ctl.sid

\* C28: every control request that is not supported (an unknown standard
\* request, an unknown descriptor type or string index, a class or reserved
\* request type, a vendor request outside the listed set, a vendor
\* set-request with a wValue outside its listed values) leaves EP0 in STALL
\* in both directions, transmits nothing and records no request.
C28_UnsupportedStallsBoth ==
    (SetupProcessed /\ Unsupported(epbuf_rx)) =>
        /\ ep0r.stat_tx = STALL
        /\ ep0r.stat_rx = STALL
        /\ NothingQueued
\* What the code does for these requests: IN is stalled, OUT is made valid
\* again by process_rx_complete.
C28_UnsupportedStallsIn ==
    (SetupProcessed /\ Unsupported(epbuf_rx)) =>
        /\ ep0r.stat_tx = STALL
        /\ ep0r.stat_rx = VALID
        /\ NothingQueued

(***************************************************************************)
(* C29: the Microsoft OS descriptors.                                      *)
(***************************************************************************)
\* The request in the endpoint has been answered with a data packet.
AnsweredWithData ==
    /\ ep0r.stat_tx = VALID
    /\ ctl.loaded = [sid |-> ctl.sid, kind |-> "data"]
IsMosString(setup) ==
    setup.bmRequestType = 128 /\ setup.bRequest = 6 /\ setup.wValue = 1006
IsGetOSFeature(setup) == setup.bmRequestType = 192 /\ setup.bRequest = 65

\* C29: a GET_DESCRIPTOR of string index 0xEE is answered, not stalled
\* (with the MSFT100A signature and the vendor code 'A'), and a vendor IN
\* request with bRequest 'A' is answered, not stalled (with the Microsoft
\* OS feature descriptors).
C29_MsOsDescriptorsAnswered ==
    (SetupProcessed /\ (IsMosString(epbuf_rx) \/ IsGetOSFeature(epbuf_rx))) =>
        AnsweredWithData
\* Both requests are stalled like the requests that are not supported.
C29_MsOsDescriptorsStalled ==
    (SetupProcessed /\ (IsMosString(epbuf_rx) \/ IsGetOSFeature(epbuf_rx))) =>
        /\ ep0r.stat_tx = STALL
        /\ NothingQueued

(***************************************************************************)
(* C30: the host's SequenceBuilder against the firmware's JTAG::sequences. *)
(***************************************************************************)
\* The firmware has run the request the builder was executed with.
BuilderDone ==
    /\ host.sent
    /\ JtagDone
    /\ spi_out[1].data = to_bytes(host)
\* The firmware found every sequence of the builder and captured the bytes
\* the host is about to read.
BuilderAgrees ==
    /\ Cardinality(TmsAt(spi_out[1].events)) = host.num_sequences
    /\ Len(spi_out[1].rx) = host.capture_length
\* The executed builders made of up to n calls with clock counts from lens.
RECURSIVE BuildersOf(_, _)
BuildersOf(lens, n) ==
    IF n = 0 THEN {[SequenceBuilder_new EXCEPT !.sent = TRUE]}
    ELSE LET bs == BuildersOf(lens, n - 1)
         IN  bs \cup
             UNION {{SequenceBuilder_request(b, len, c.tms, c.tdi, c.capture) :
                        b \in bs, c \in SeqCalls(len)} : len \in lens}
NonZeroBuilders == BuildersOf(SeqLens \ {0}, MaxSeqs)

\* C30: for every request the host's SequenceBuilder accepts, JTAG::sequences
\* parses all of its sequences and captures exactly capture_length bytes
\* (as many TDO bytes as the capture sequences had TDI bytes), the reply
\* length Programmer::jtag_sequence expects.
C30_BuilderReplyLength == BuilderDone => BuilderAgrees
\* The same for the builders whose calls asked for 1 to 64 clocks.
C30_NonZeroReplyLength ==
    (BuilderDone /\ host \in NonZeroBuilders) => BuilderAgrees
\* A builder of 1 to 64 clocks a call, with captures, has been executed.
C30_NonZeroReached ==
    ~(BuilderDone /\ host \in NonZeroBuilders /\ host.capture_length = 9
        /\ host.num_sequences = 2)

(***************************************************************************)
(* C31: the reads of a DAP_TransferBlock of AP reads.                      *)
(***************************************************************************)
\* The wire entries that end a call of SWD::read or SWD::write, and the
\* entry that ends the i-th call.
CallEnds(w) == {k \in 1..Len(w) : LastOfCall(w, k)}
CallEnd(w, i) ==
    CHOOSE k \in CallEnds(w) : Cardinality({j \in CallEnds(w) : j <= k}) = i
\* A DAP_TransferBlock of n reads of AP register 0 every call of which ended
\* OK with good parity (a call may have been retried after a WAIT).
BlockAPReads(n) ==
    /\ out # None
    /\ out[1].report = BlockReport(n, 3, <<>>)
    /\ out[1].wire # <<>>
    /\ \A k \in CallEnds(out[1].wire) : GoodAnswer(out[1].wire[k])
\* The values of the calls 2 to n + 1, as the response holds them.
BlockValues(w, n) ==
    Concat([i \in 1..n |-> u32_to_le_bytes(w[CallEnd(w, i + 1)].data)])

BusLog == out[1].bus
\* The places where a transaction ends: before the next request, and at the
\* end of the log.
BusEnds == {i \in 1..Len(BusLog) : i = Len(BusLog) \/ BusLog[i + 1] = "req"}

\* C32: every SWD read or write transaction returns with SWDIO driven by
\* the host: on success, on a non-OK acknowledgement, on a parity error and
\* after each WAIT that is retried, the transaction turned the line to the
\* target (swd_rx) and the last turn before it ended is swd_tx.
C32_BusBackToHost ==
    (out # None /\ out[1].wire # <<>>) =>
        /\ Cardinality(BusEnds) = Len(out[1].wire)
        /\ \A i \in 1..Len(BusLog) :
              /\ BusLog[i] = "req" => (i < Len(BusLog) /\ BusLog[i + 1] = "rx")
              /\ i \in BusEnds => BusLog[i] = "tx"
        /\ pins.flash_si.mode = "alternate"
\* A read retried after a WAIT whose second attempt has bad parity: the
\* error ends the request before its write.
C32_Witness ==
    /\ out # None
    /\ out[1].report = TransferReport(<<ElemReadDP, ElemWriteAP>>)
    /\ out[1].script = <<AnsWait, AnsBadParity>>
    /\ BusLog = <<"req", "rx", "tx", "req", "rx", "tx", "tx">>

(***************************************************************************)
(* C33: one transfer-complete event for each call of process_transfer.     *)
(***************************************************************************)
\* A call that found both CTR_TX and CTR_RX set in r left one of them set
\* in q.
OneEventHandled(r, q) ==
    (r.ctr_tx = 1 /\ r.ctr_rx = 1) => (q.ctr_tx = 1 \/ q.ctr_rx = 1)

\* C33: a call of an endpoint's process_transfer handles the completed
\* transmission or the completed reception, never both: when both CTR_TX
\* and CTR_RX are set, one of them is still set when the call returns, and
\* is handled by a later interrupt.
C33_OneEventPerInterrupt ==
    [][/\ Interrupt => OneEventHandled(ep0r, ep0r')
       /\ DAP1Interrupt => OneEventHandled(ep2r, ep2r')]_vars
\* ControlEndpoint::process_transfer alone: the transmission is handled, the
\* reception stays flagged (unless the call panics).
C33_ControlOneEvent ==
    [][Interrupt =>
          ((ep0r.ctr_tx = 1 /\ ep0r.ctr_rx = 1 /\ ~panicked')
              => (ep0r'.ctr_tx = 0 /\ ep0r'.ctr_rx = 1))]_vars
\* The control endpoint is interrupted with both events flagged.
C33_ControlBothFlagged == ~(ep0r.ctr_tx = 1 /\ ep0r.ctr_rx = 1)
\* DAP1Endpoint::process_transfer: both events are handled by one call.
C33_Dap1BothEvents ==
    [][DAP1Interrupt =>
          ((ep2r.ctr_tx = 1 /\ ep2r.ctr_rx = 1)
              => (ep2r'.ctr_tx = 0 /\ ep2r'.ctr_rx = 0 /\ dap_in' = ep2_rx))]_vars

(***************************************************************************)
(* C34: the busy-waits of swd_rdata_phase.                                 *)
(***************************************************************************)
\* The final word has been clocked out while the processor still waits for
\* an edge of SCK.
MissedEdge ==
    /\ rd.pc \in {"wait_high", "wait_low"}
    /\ rd.left = 0

\* C34: swd_rdata_phase is not guaranteed to terminate.  When the clock is
\* fast enough for the SCK edges of the final word to pass between two
\* samples of the busy-waits, the wait never exits: the bus is not swapped
\* and the read does not return.
C34_MissedEdgeHangs ==
    [][MissedEdge => (rd'.pc = rd.pc /\ ~rd'.swapped)]_vars
\* The processor samples SCK for the first time after the whole final word.
C34_Witness ==
    /\ MissedEdge
    /\ rd.pc = "wait_high"
    /\ rd.per = FinalWordEdges
    /\ rd.sck = 1
\* With at most one edge between two samples no edge is missed.
C34_SlowClockReturns == (rd.per = 1 /\ rd.left = 0) => ~MissedEdge
\* Every data phase returns.
C34_AlwaysReturns == (rd.pc = "wait_high") ~> (rd.pc = "done")

(***************************************************************************)
(* C37: replies of no bytes.                                               *)
(***************************************************************************)
\* A JTAG request has been run and has captured nothing.
EmptyCapture == JtagDone /\ spi_out[1].rx = <<>>

\* C37: every reply path accepts an empty payload: the reply to a JTAG
\* request without a capturing sequence (write_tx called with a slice of
\* no bytes) queues a zero-length packet and does not panic.
C37_EmptyReplyQueued ==
    EmptyCapture =>
        /\ ~panicked
        /\ spi_out[1].replied
        /\ spi_out[1].reply = <<>>
\* What the code does: write_tx reads data[0], the firmware panics and no
\* packet is queued.
C37_EmptyReplyPanics ==
    EmptyCapture => (panicked /\ ~spi_out[1].replied)

(***************************************************************************)
(* The host's TAP (software/src/jtag.rs) and the ECP5 flash access         *)
(* (software/src/ecp5.rs) against the TAP controller of the target.        *)
(***************************************************************************)
\* enum TAPState
TapStates ==
    {"TestLogicReset", "RunTestIdle", "SelectDRScan", "CaptureDR", "ShiftDR",
     "Exit1DR", "PauseDR", "Exit2DR", "UpdateDR", "SelectIRScan", "CaptureIR",
     "ShiftIR", "Exit1IR", "PauseIR", "Exit2IR", "UpdateIR"}

\* The TAP controller of the target: the state after a rising edge of TCK
\* with TMS at the level `tms`.
tap_next(st, tms) ==
    CASE st = "TestLogicReset" -> IF tms = 1 THEN "TestLogicReset" ELSE "RunTestIdle"
      [] st = "RunTestIdle" -> IF tms = 1 THEN "SelectDRScan" ELSE "RunTestIdle"
      [] st = "SelectDRScan" -> IF tms = 1 THEN "SelectIRScan" ELSE "CaptureDR"
      [] st = "CaptureDR" -> IF tms = 1 THEN "Exit1DR" ELSE "ShiftDR"
      [] st = "ShiftDR" -> IF tms = 1 THEN "Exit1DR" ELSE "ShiftDR"
      [] st = "Exit1DR" -> IF tms = 1 THEN "UpdateDR" ELSE "PauseDR"
      [] st = "PauseDR" -> IF tms = 1 THEN "Exit2DR" ELSE "PauseDR"
      [] st = "Exit2DR" -> IF tms = 1 THEN "UpdateDR" ELSE "ShiftDR"
      [] st = "UpdateDR" -> IF tms = 1 THEN "SelectDRScan" ELSE "RunTestIdle"
      [] st = "SelectIRScan" -> IF tms = 1 THEN "TestLogicReset" ELSE "CaptureIR"
      [] st = "CaptureIR" -> IF tms = 1 THEN "Exit1IR" ELSE "ShiftIR"
      [] st = "ShiftIR" -> IF tms = 1 THEN "Exit1IR" ELSE "ShiftIR"
      [] st = "Exit1IR" -> IF tms = 1 THEN "UpdateIR" ELSE "PauseIR"
      [] st = "PauseIR" -> IF tms = 1 THEN "Exit2IR" ELSE "PauseIR"
      [] st = "Exit2IR" -> IF tms = 1 THEN "UpdateIR" ELSE "ShiftIR"
      [] OTHER -> IF tms = 1 THEN "SelectDRScan" ELSE "RunTestIdle"

\* The same as a function of the state and the level of TMS.
tap_step == [st \in TapStates, tms \in {0, 1} |-> tap_next(st, tms)]

\* The state after `k` rising edges of TCK with TMS held at `tms`.  Held
\* low, TMS brings the controller to a state it stays in within two
\* edges; held high, to Test-Logic-Reset within five.
tap_after(st, tms, k) ==
    LET s1 == tap_step[st, tms]
        s2 == tap_step[s1, tms]
        s3 == tap_step[s2, tms]
        s4 == tap_step[s3, tms]
    IN  CASE k = 0 -> st
          [] k = 1 -> s1
          [] k = 2 -> s2
          [] k = 3 -> s3
          [] k = 4 -> s4
          [] OTHER -> tap_step[s4, tms]

\* The places in `events` where the firmware sets TMS, which is where a
\* sequence starts, and the places of the rising edges of TCK in the
\* sequence that starts at `lo` and ends before `hi`.
tms_places(events) ==
    SelectSeq([i \in 1..Len(events) |-> i], LAMBDA i : events[i].e = "tms")
edge_places(events, lo, hi) ==
    SelectSeq([i \in 1..(hi - lo - 1) |-> lo + i],
              LAMBDA i : events[i] = Ev("tck", 1))
\* The level of TDI at the place `i`: the last one set before it.
tdi_at(events, i) ==
    LET K == {k \in 1..(i - 1) : events[k].e = "tdi"}
    IN  events[CHOOSE k \in K : \A m \in K : m <= k].v

\* The target follows the sequences of `events` from the `n`th on.  At a
\* rising edge of TCK the controller takes its next state and, when it was
\* in a shift state, the register takes the level of TDI.  `a` holds the
\* state, the states entered in each sequence, and the bits shifted in with
\* the level of TMS at each.
RECURSIVE tap_run(_, _, _, _)
tap_run(events, places, n, a) ==
    IF n > Len(places) THEN a
    ELSE LET tms == events[places[n]].v
             hi == IF n < Len(places) THEN places[n + 1] ELSE Len(events) + 1
             edges == edge_places(events, places[n], hi)
             shifts == SelectSeq([k \in 1..Len(edges) |-> k],
                           LAMBDA k : tap_after(a.state, tms, k - 1)
                                          \in {"ShiftDR", "ShiftIR"})
         IN  tap_run(events, places, n + 1,
                 [state |-> tap_after(a.state, tms, Len(edges)),
                  segs |-> Append(a.segs,
                               [k \in 1..Len(edges) |-> tap_after(a.state, tms, k)]),
                  shifted |-> a.shifted \o
                      [x \in 1..Len(shifts) |->
                          [bit |-> tdi_at(events, edges[shifts[x]]), tms |-> tms]]])

\* The target in the state `st` follows `events`.
tap_follow(st, events) ==
    tap_run(events, tms_places(events), 1,
        [state |-> st, segs |-> <<>>, shifted |-> <<>>])

\* A builder of the host together with whether every assertion of
\* SequenceBuilder::request has held so far.
Builder_new == [ok |-> TRUE, b |-> SequenceBuilder_new]
\* SequenceBuilder::request with its assertions.
Builder_request(h, len, tms, tdi, capture) ==
    IF h.ok /\ request_accepts(h.b, len, tdi)
    THEN [ok |-> TRUE, b |-> SequenceBuilder_request(h.b, len, tms # 0, tdi, capture)]
    ELSE [ok |-> FALSE, b |-> h.b]
\* SequenceBuilder::write, ::mode and ::read
Builder_write(h, len, tms, tdi) == Builder_request(h, len, tms, Some(tdi), FALSE)
Builder_mode(h, len, tms) == Builder_request(h, len, tms, None, FALSE)
Builder_read(h, len, tms) == Builder_request(h, len, tms, None, TRUE)
\* An assertion of the caller fails before the builder is used.
Builder_assert(cond, h) == IF cond THEN h ELSE [ok |-> FALSE, b |-> h.b]

\* `&[data.last().unwrap() >> 7]`
last_shifted(data) == <<data[Len(data)] \div 128>>

\* TAP::new, the builder after programmer.jtag_mode().
TAP_new == Builder_mode(Builder_mode(Builder_new, 5, 1), 1, 0)

\* `.write(nbits - 1, 0, data).write(1, 1, &[data.last().unwrap() >> 7])`
write_bits(h, data, nbits) ==
    Builder_write(Builder_write(h, nbits - 1, 0, data), 1, 1, last_shifted(data))

\* TAP::write_ir
TAP_write_ir(data, nbits) ==
    Builder_assert(Len(data) * 8 >= nbits,
        Builder_mode(Builder_mode(
            write_bits(Builder_mode(Builder_mode(Builder_new, 2, 1), 2, 0),
                       data, nbits),
            1, 1), 1, 0))

\* TAP::read_dr
TAP_read_dr(nbits) ==
    Builder_mode(Builder_mode(
        Builder_read(Builder_mode(Builder_mode(Builder_new, 1, 1), 2, 0), nbits, 0),
        2, 1), 1, 0)

\* TAP::write_dr
TAP_write_dr(data, nbits) ==
    Builder_assert(Len(data) * 8 >= nbits,
        Builder_mode(Builder_mode(
            write_bits(Builder_mode(Builder_mode(Builder_new, 1, 1), 2, 0),
                       data, nbits),
            1, 1), 1, 0))

\* TAP::run_test_idle
TAP_run_test_idle(n) == Builder_mode(Builder_new, n, 0)

\* FlashAccess::select of the ECP5
ECP5_select == Builder_mode(Builder_mode(Builder_new, 1, 1), 2, 0)

\* FlashAccess::unselect of the ECP5
ECP5_unselect ==
    Builder_mode(Builder_mode(Builder_mode(Builder_mode(Builder_new, 1, 1), 1, 0),
                              2, 1), 1, 0)

\* u8::reverse_bits
RECURSIVE reverse_bits_from(_, _)
reverse_bits_from(x, n) ==
    IF n = 0 THEN 0
    ELSE (x % 2) * (2 ^ (n - 1)) + reverse_bits_from(x \div 2, n - 1)
reverse_bits(x) == reverse_bits_from(x, 8)

\* FlashAccess::write of the ECP5, one group of at most 56 bytes: a
\* capturing request for each chunk of at most 8 bytes, the bits of each
\* byte reversed.
RECURSIVE ECP5_write_chunks(_, _)
ECP5_write_chunks(h, data) ==
    IF Len(data) = 0 THEN h
    ELSE LET n == Min(8, Len(data))
         IN  ECP5_write_chunks(
                 Builder_request(h, n * 8, 0,
                     Some([i \in 1..n |-> reverse_bits(data[i])]), TRUE),
                 SubSeq(data, n + 1, Len(data)))
ECP5_write(data) == ECP5_write_chunks(Builder_new, data)

\* The data and the numbers of bits the host writes to a register, the
\* numbers of bits it reads, the clocks it idles for and the bytes it
\* writes to the flash.
WriteData == {<<254, 104>>, <<21>>, <<128>>}
WriteBits == {1, 5, 8, 9, 16}
ReadBits == {8, 32}
IdleClocks == {2, 50}
FlashData == {<<1, 2>>, <<1, 2, 3, 4, 5, 6, 7, 8, 9>>}

\* SequenceBuilder::execute of the builder `h` for the operation `name`,
\* from Programmer::jtag_sequence to the reply of the firmware, with the
\* target following the pins: an assertion that failed leaves the request
\* unsent; a firmware that has halted takes no request; otherwise
\* JTAG::sequences drives the pins and the capture goes to spi_data_reply.
\* The result is "ok" when the host reads a reply.  The host runs the
\* operations once programmer.jtag_mode() has put the firmware in JTAG
\* mode, as TAP::new does.
TapExecute(name, h, data, nbits) ==
    /\ DapIdle /\ SpiIdle
    /\ mode = "JTAG"
    /\ \E ext \in TdoBytes :
       \E run \in {h.ok /\ ~panicked /\ spi_data_enabled} :
       \E j \in {IF run THEN sequences(pins, to_bytes(h.b), ext)
                 ELSE NoSequences(pins)} :
       \E r \in {spi_data_reply(j.rx)} :
       \E t \in {tap_follow(tap.state, j.events)} :
           /\ pins' = j.pins
           /\ panicked' = IF run THEN r.pan ELSE panicked
           /\ tap' = [state |-> t.state, op |-> name, from |-> tap.state,
                      data |-> data, nbits |-> nbits, ran |-> run,
                      segs |-> t.segs, shifted |-> t.shifted,
                      result |-> IF ~h.ok THEN "assert"
                                 ELSE IF run /\ ~r.pan THEN "ok" ELSE "error"]
    /\ UNCHANGED <<ctlVars, configured, swo_streaming, match_retries,
                   wait_retries, spi_enabled, spi_clock, uart_active, dap_in,
                   out, appVars, sysNotTap>>

\* TAP::new after its programmer.jtag_mode(), which is JtagSetMode.
TapNew == TapExecute("new", TAP_new, <<>>, 0)
TapWriteIr ==
    \E data \in WriteData : \E nbits \in WriteBits :
        TapExecute("write_ir", TAP_write_ir(data, nbits), data, nbits)
TapReadDr ==
    \E nbits \in ReadBits : TapExecute("read_dr", TAP_read_dr(nbits), <<>>, nbits)
TapWriteDr ==
    \E data \in WriteData : \E nbits \in WriteBits :
        TapExecute("write_dr", TAP_write_dr(data, nbits), data, nbits)
TapRunTestIdle ==
    \E n \in IdleClocks :
        TapExecute("run_test_idle", TAP_run_test_idle(n), <<>>, n)
FlashSelect == TapExecute("select", ECP5_select, <<>>, 0)
FlashWrite ==
    \E data \in FlashData :
        TapExecute("write", ECP5_write(data), data, 8 * Len(data))
FlashUnselect == TapExecute("unselect", ECP5_unselect, <<>>, 0)

\* The programmer is unplugged and plugged in again after its firmware has
\* halted: the firmware starts anew, the target keeps the state of its TAP.
Replug ==
    /\ panicked
    /\ panicked' = FALSE
    /\ pins' = PinsSetup
    /\ mode' = "HighImpedance"
    /\ spi_data_enabled' = FALSE
    /\ dap_enabled' = TRUE
    /\ app' = AppObs("setup", FALSE, FALSE, None, None)
    /\ UNCHANGED <<ctlVars, configured, swo_streaming, match_retries,
                   wait_retries, spi_enabled, spi_clock, uart_active, dap_in,
                   out, spi_in, spi_out, sysVars>>

\* The target's TAP may be in any state when the host starts.
InitTap ==
    /\ CtlInit /\ DapInit /\ AppInit /\ panicked = FALSE
    /\ host = SequenceBuilder_new /\ SwoInit /\ BootInit /\ FlashInit
    /\ Ep2Init /\ RdInit /\ EprInit
    /\ \E st \in TapStates : tap = TapIn(st)
NextTap ==
    \/ JtagSetMode
    \/ TapNew
    \/ TapWriteIr
    \/ TapReadDr
    \/ TapWriteDr
    \/ TapRunTestIdle
    \/ FlashSelect
    \/ FlashWrite
    \/ FlashUnselect
    \/ Replug
SpecTap == InitTap /\ [][NextTap]_vars

(***************************************************************************)
(* C35: the path of the TAP controller under the host's operations.        *)
(***************************************************************************)
\* A sequence whose call has no comment naming states.
NotNamed == <<"-">>
\* The states the comments in TAP and in FlashAccess for ECP5 name, one
\* entry for each call on the builder.
NamedStates(op) ==
    CASE op = "write_ir" ->
            << <<"SelectDRScan", "SelectIRScan">>, <<"CaptureIR", "ShiftIR">>,
               NotNamed, NotNamed, <<"UpdateIR">>, <<"RunTestIdle">> >>
      [] op = "read_dr" ->
            << <<"SelectDRScan">>, <<"CaptureDR", "ShiftDR">>, NotNamed,
               <<"Exit1DR", "UpdateDR">>, <<"RunTestIdle">> >>
      [] op = "write_dr" ->
            << <<"SelectDRScan">>, <<"CaptureDR", "ShiftDR">>,
               NotNamed, NotNamed, <<"UpdateDR">>, <<"RunTestIdle">> >>
      [] op = "run_test_idle" -> << <<"SelectDRScan">> >>
      [] op = "select" -> << <<"SelectDRScan">>, <<"CaptureDR", "ShiftDR">> >>
      [] op = "unselect" ->
            << <<"Exit1DR">>, <<"PauseDR">>, <<"Exit2DR", "UpdateDR">>,
               <<"RunTestIdle">> >>
      [] OTHER -> <<>>
\* What run_test_idle does: TMS low keeps the controller in Run-Test/Idle.
ActualStates(op) ==
    IF op = "run_test_idle" THEN << <<"RunTestIdle">> >> ELSE NamedStates(op)

\* The state each operation starts in and the one it is to end in: the
\* flash access is select, write, unselect, with the controller in
\* Shift-DR in between.
StartState(op) == IF op \in {"write", "unselect"} THEN "ShiftDR" ELSE "RunTestIdle"
EndState(op) == IF op \in {"select", "write"} THEN "ShiftDR" ELSE "RunTestIdle"

Range(f) == {f[i] : i \in DOMAIN f}
\* The states entered in the sequence `seg` are the ones `named`, in
\* their order.
EntersNamed(seg, named) ==
    /\ Range(seg) = Range(named)
    /\ Len(seg) = Len(named) => seg = named
\* The controller has passed through the states `named` names.
PathIs(named) ==
    /\ named # <<>> => Len(tap.segs) = Len(named)
    /\ \A k \in 1..Len(named) :
           (named[k] # NotNamed /\ k <= Len(tap.segs))
               => EntersNamed(tap.segs[k], named[k])

\* An operation of the host has returned without a failed assertion, and
\* it was started with the target where the operation expects it.
Returned ==
    /\ tap.op \notin {"none", "new"}
    /\ tap.result # "assert"
    /\ tap.from = StartState(tap.op)

\* C35: started with the target's TAP in Run-Test/Idle (the flash write
\* and unselect: in Shift-DR, where select leaves it), each operation of
\* the host drives the TAP through exactly the states the comments name
\* and leaves it in Run-Test/Idle (select and write: in Shift-DR); TAP::new
\* leaves it in Run-Test/Idle from any state.
C35_TapPaths ==
    /\ tap.op = "new" => tap.state = "RunTestIdle"
    /\ Returned => (PathIs(NamedStates(tap.op)) /\ tap.state = EndState(tap.op))

\* What the code does, as long as the firmware runs the request: the
\* paths are the ones named, but for run_test_idle, which stays in
\* Run-Test/Idle.
C35_PathsWhileRunning ==
    /\ (tap.op = "new" /\ tap.ran) => tap.state = "RunTestIdle"
    /\ (Returned /\ tap.ran)
           => (PathIs(ActualStates(tap.op)) /\ tap.state = EndState(tap.op))
\* A request that captures nothing halts the firmware (C37), and the next
\* operation drives nothing: the target stays where it was.
C35_HaltedDrivesNothing ==
    (tap.op # "none" /\ tap.result # "assert" /\ ~tap.ran)
        => (tap.segs = <<>> /\ tap.state = tap.from)
\* Not reached (TLC finds it reached): a write_ir started in Run-Test/Idle
\* that the halted firmware has not run.
C35_NoWriteIrOnHalted ==
    ~(Returned /\ tap.op = "write_ir" /\ ~tap.ran /\ panicked)
\* Not reached (TLC finds it reached): a run_test_idle that the firmware
\* has run from Run-Test/Idle.
C35_NoIdleRun == ~(Returned /\ tap.op = "run_test_idle" /\ tap.ran)
\* Held for five edges or more, TMS leaves the controller where it is
\* after five.
TapSettles ==
    \A st \in TapStates : \A tms \in {0, 1} :
        tap_step[tap_after(st, tms, 5), tms] = tap_after(st, tms, 5)

(***************************************************************************)
(* C39: the bits TAP::write_ir and TAP::write_dr shift into the register.  *)
(***************************************************************************)
\* The host has called write_ir or write_dr with at least one bit and with
\* data that holds as many bits.
WriteCalled ==
    /\ tap.op \in {"write_ir", "write_dr"}
    /\ tap.nbits >= 1
    /\ Len(tap.data) * 8 >= tap.nbits
\* The firmware has run the request with the target in Run-Test/Idle.
WriteRan == WriteCalled /\ tap.ran /\ tap.from = "RunTestIdle"
\* Bits 0 to nbits - 1 of the data, TMS low but for the last.
BitsOfData ==
    [k \in 1..tap.nbits |->
        [bit |-> tdi_bit(tap.data, k - 1),
         tms |-> IF k = tap.nbits THEN 1 ELSE 0]]
\* Bits 0 to nbits - 2 of the data and then bit 7 of its last byte.
BitsWithLastShifted ==
    [k \in 1..tap.nbits |->
        [bit |-> IF k = tap.nbits THEN tap.data[Len(tap.data)] \div 128
                 ELSE tdi_bit(tap.data, k - 1),
         tms |-> IF k = tap.nbits THEN 1 ELSE 0]]

\* C39: write_ir and write_dr, for every nbits >= 1 and data of at least
\* nbits bits, trip no assertion and shift exactly bits 0 to nbits - 1 of
\* the data into the register, least significant first, with TMS low for
\* all but the last.
C39_WriteShiftsData ==
    /\ WriteCalled => tap.result # "assert"
    /\ WriteRan => tap.shifted = BitsOfData

\* What the code does: the assertion `tdi.len() == nbytes` of
\* SequenceBuilder::request holds only when the data is as long as
\* nbits - 1 bits take, and the last bit shifted is bit 7 of the last byte.
C39_WriteAsCoded ==
    /\ WriteCalled =>
           (tap.result # "assert"
               <=> Len(tap.data) = bytes_for_bits(tap.nbits - 1))
    /\ WriteRan => tap.shifted = BitsWithLastShifted
\* Not reached (TLC finds it reached): a write that the firmware ran and
\* whose last bit is not bit nbits - 1 of the data.
C39_NoWrongLastBit == ~(WriteRan /\ tap.shifted # BitsOfData)
\* Not reached (TLC finds it reached): a write of whole bytes, which shifts
\* the bits of the data.
C39_NoWholeBytes ==
    ~(WriteRan /\ tap.nbits = 8 * Len(tap.data) /\ tap.shifted = BitsOfData)

(***************************************************************************)
(* C36: a SETUP that arrives while a control-IN response is unfinished.    *)
(***************************************************************************)
\* What is left of a response in pending_tx was put there for the SETUP
\* processed last.
PendingIsCurrent == (~panicked /\ pending_tx # None) => ctl.staged = ctl.sid
\* Every byte transmitted since the last SETUP was processed that had been
\* staged in pending_tx_buf (the bytes of a payload from the 64th on)
\* answers that SETUP.
NoStaleByte ==
    \A k \in 1..Len(ctl.wire) :
        \A i \in 1..Len(ctl.wire[k]) :
            ctl.wire[k][i][2] >= PacketSize => ctl.wire[k][i][1] = ctl.sid

C36_OnlyEmptyRest == pending_tx # None => pending_tx = <<0, 0>>
\* Not reached (TLC finds it reached): the firmware halted on the empty
\* packet of a response that a later SETUP was to supersede.
C36_NoHaltOnStale ==
    ~(panicked /\ pending_tx # None /\ ctl.staged # ctl.sid /\ pending_tx[2] = 0)

\* transmit_slice takes payloads of up to MaxPayload bytes: the host asks
\* twice, the first answer is of 130 bytes and the second of two.
StaleSetup == HostSetupOf({GetTPwrSetup}, 2)
StaleReply == ReplyOf({TPwrReplyLen, 130})
NextStale == StaleSetup \/ HostIn \/ HostOut \/ Interrupt \/ StaleReply
SpecStale == Init /\ [][NextStale]_vars

(***************************************************************************)
(* C38: the busy flag of the SWO endpoint over a USB reset and a           *)
(* configuration of the endpoint.                                          *)
(***************************************************************************)
\* The stack resets its endpoints on a USB reset:
\* SWOEndpoint::reset_endpoint writes STAT_TX to DISABLED and, with it, 0 to
\* CTR_TX; it takes `&self` and leaves tx_busy as it is.  The packet that
\* was loaded is not sent any more.
SWOReset ==
    /\ ~panicked
    /\ ep4_stat_tx' = ToggleWrite(ep4_stat_tx, stat_disabled(ep4_stat_tx))
    /\ swo_ctr_tx' = FALSE
    /\ swo_tx' = None
    /\ UNCHANGED <<ctlVars, dapVars, panicked, appVars, sysNotSwo, tx_busy,
                   uart_ring>>
\* The stack configures its endpoints on SET_CONFIGURATION:
\* SWOEndpoint::configure_endpoint writes STAT_TX to NAK and keeps CTR_TX;
\* it takes `&self` and leaves tx_busy as it is.
SWOConfigure ==
    /\ ~panicked
    /\ ep4_stat_tx' = ToggleWrite(ep4_stat_tx, stat_nak(ep4_stat_tx))
    /\ swo_tx' = None
    /\ UNCHANGED <<ctlVars, dapVars, panicked, appVars, sysNotSwo, tx_busy,
                   swo_ctr_tx, uart_ring>>
NextSwoBus == NextSwo \/ SWOReset \/ SWOConfigure
SpecSwoBus == Init /\ [][NextSwoBus]_vars

\* A packet loaded by transmit_slice awaits its TX-complete: the host has
\* yet to read it, or has read it and CTR_TX is set.
AwaitsTxComplete == swo_tx # None \/ swo_ctr_tx

\* C38: the busy flag of the SWO endpoint is true only while a packet loaded
\* by transmit_slice awaits its TX-complete; after a USB reset or a
\* configuration of the endpoint it is false.
C38_BusyOnlyWhileAwaited == tx_busy => AwaitsTxComplete

\* What the code does.  Without a reset the flag is as stated (checked on
\* SpecSwo).  A reset or a configuration that comes while a packet is
\* loaded leaves the flag set with no packet left to complete, and from
\* then on nothing clears it: App::poll never pushes SWO data again.
C38_BusyStuck == [][(tx_busy /\ ~AwaitsTxComplete) => tx_busy']_vars
C38_StuckNeverPushes == [][(tx_busy /\ ~AwaitsTxComplete) => swo_tx' = None]_vars
\* A reset or a configuration leaves the flag as it was.
C38_ResetKeepsBusy ==
    [][(ep4_stat_tx' \in {DISABLED, NAK} /\ swo_tx # None /\ swo_tx' = None
           /\ ~swo_ctr_tx')
        => tx_busy' = tx_busy]_vars

(***************************************************************************)
(* C40: the patterns written to the write-1-to-toggle STAT fields.         *)
(***************************************************************************)
\* The pattern the function called `name` gives for a field that holds `s`.
StatPattern(name, s) ==
    CASE name = "disabled" -> stat_disabled(s)
      [] name = "stall" -> stat_stall(s)
      [] name = "nak" -> stat_nak(s)
      [] OTHER -> stat_valid(s)
\* The firmware reads a STAT field of the register and writes to it the
\* pattern the function called `name` gives for what it read.
StatWrite(name) ==
    /\ \E f \in {"tx", "rx"} :
           epr' = [stat |-> [epr.stat EXCEPT
                                ![f] = ToggleWrite(@, StatPattern(name, @))],
                   was |-> epr.stat[f], wrote |-> name, field |-> f]
    /\ UNCHANGED <<ctlVars, dapVars, panicked, appVars, sysNotEpr>>
WriteDisabled == StatWrite("disabled")
WriteStall == StatWrite("stall")
WriteNak == StatWrite("nak")
WriteValid == StatWrite("valid")
\* The register holds any two values to start with.
InitStat ==
    /\ CtlInit /\ DapInit /\ AppInit /\ panicked = FALSE
    /\ host = SequenceBuilder_new /\ SwoInit /\ BootInit /\ FlashInit
    /\ Ep2Init /\ RdInit /\ TapInit
    /\ \E t \in 0..3 : \E r \in 0..3 : epr = EprOf(t, r)
NextStat == WriteDisabled \/ WriteStall \/ WriteNak \/ WriteValid
SpecStat == InitStat /\ [][NextStat]_vars

\* C40: whatever a STAT field holds, writing stat_disabled, stat_stall,
\* stat_nak or stat_valid of what it holds leaves it at DISABLED (00),
\* STALL (01), NAK (10) or VALID (11), and leaves the other field alone.
C40_StatWrites ==
    /\ epr.wrote = "disabled" => epr.stat[epr.field] = DISABLED
    /\ epr.wrote = "stall" => epr.stat[epr.field] = STALL
    /\ epr.wrote = "nak" => epr.stat[epr.field] = NAK
    /\ epr.wrote = "valid" => epr.stat[epr.field] = VALID
\* STAT_RX held STALL and has been written with stat_nak: both of its bits
\* were toggled.
C40_Witness ==
    /\ epr.wrote = "nak"
    /\ epr.was = STALL
    /\ epr.stat[epr.field] = NAK
    /\ epr.field = "rx"
\* Not reached (TLC finds it reached): a field that held VALID written with
\* stat_disabled.
C40_NotAllCases ==
    ~(epr.wrote = "disabled" /\ epr.was = VALID /\ epr.stat[epr.field] = DISABLED)

====
